---- MODULE Spec2Model ----
(***************************************************************************)
(* PropStack MCP server (read-only adapter) and its PropStackClient.       *)
(*                                                                         *)
(* Strings the code inspects character by character (error messages,       *)
(* status filters, property types, unit ids, URIs, tool and prompt names)  *)
(* are sequences of one-character strings.  Strings the code only copies   *)
(* are TLA+ strings.  JavaScript values of upstream records are tagged     *)
(* records [type |-> ..., val |-> ...].                                    *)
(***************************************************************************)
EXTENDS Integers, Sequences, FiniteSets, TLC

VARIABLES
    env,          \* process.env.PROPSTACK_API_KEY
    proc,         \* the process: starting, running (handlers registered) or exited
    apiKey,       \* PropStackClient.apiKey, set by the constructor
    pc,           \* the handler's position: "idle", "fetching" (awaiting fetch), "done"
    request,      \* the protocol request being handled
    branch,       \* the handler branch that awaits the fetch
    fetchLog,     \* the outbound HTTP requests issued for this protocol request
    sanitizeLog,  \* the sanitizeProperty calls made for this protocol request
    reply,        \* what the awaited fetch came back with
    awaited,      \* what the handler's awaited client call returned or threw
    response,     \* what the handler returned or threw
    spArg,        \* sanitizeProperty on its own: [property, removeMedia]
    spRet,        \* sanitizeProperty on its own: the returned record
    seArg,        \* sanitizeError on its own: the message passed in
    seRet,        \* sanitizeError on its own: the message returned
    nsArg,        \* normalizeStatusParam on its own: the status string passed in
    nsRet,        \* normalizeStatusParam on its own: the string returned
    sqArg,        \* searchProperties on its own: the SearchParams passed in
    sqRet,        \* searchProperties on its own: the URLSearchParams built
    ctorArg,      \* the constructor on its own: the PropStackConfig passed in
    ctorRet,      \* the constructor on its own: the client built or the error thrown
    applied       \* TRUE once the function studied on its own has returned

serverVars ==
    <<env, proc, apiKey, pc, request, branch, fetchLog, sanitizeLog, reply, awaited,
      response>>

ctorVars == <<ctorArg, ctorRet>>

pureVars ==
    <<spArg, spRet, seArg, seRet, nsArg, nsRet, sqArg, sqRet, ctorArg, ctorRet, applied>>

vars == <<env, proc, apiKey, pc, request, branch, fetchLog, sanitizeLog, reply, awaited,
          response, spArg, spRet, seArg, seRet, nsArg, nsRet, sqArg, sqRet, ctorArg,
          ctorRet, applied>>

(***************************************************************************)
(* Bounds of the model.                                                    *)
(***************************************************************************)
MaxErrorChunks == 3     \* chunks of an error message
MaxStatusChunks == 4    \* chunks of a status filter
MaxTypeChunks == 3      \* chunks of a property type
MaxCoord == 7           \* |lat|, |lng| in units of 0.0001 degree
MaxSupplied == 2        \* search parameters a caller supplies at once
MaxUnits == 2           \* records in one upstream reply

(***************************************************************************)
(* JavaScript string primitives.                                           *)
(***************************************************************************)
Whitespace == {" ", "\t"}

Digits == {"0", "1", "2", "3", "4", "5", "6", "7", "8", "9"}

UpperToLower ==
    [A |-> "a", B |-> "b", C |-> "c", D |-> "d", E |-> "e", F |-> "f", G |-> "g",
     H |-> "h", I |-> "i", J |-> "j", K |-> "k", L |-> "l", M |-> "m", N |-> "n",
     O |-> "o", P |-> "p", Q |-> "q", R |-> "r", S |-> "s", T |-> "t", U |-> "u",
     V |-> "v", W |-> "w", X |-> "x", Y |-> "y", Z |-> "z"]

LowerChar(c) == IF c \in DOMAIN UpperToLower THEN UpperToLower[c] ELSE c

toLowerCase(s) == [i \in 1..Len(s) |-> LowerChar(s[i])]

\* String.prototype.trim
trim(s) ==
    LET keep == {i \in 1..Len(s) : s[i] \notin Whitespace}
    IN  IF keep = {} THEN <<>>
        ELSE LET lo == CHOOSE i \in keep : \A j \in keep : i <= j
                 hi == CHOOSE i \in keep : \A j \in keep : i >= j
             IN  SubSeq(s, lo, hi)

\* String.prototype.split(sep) for a one-character separator
RECURSIVE split(_, _)
split(s, sep) ==
    LET at == {i \in 1..Len(s) : s[i] = sep}
    IN  IF at = {} THEN <<s>>
        ELSE LET i == CHOOSE k \in at : \A j \in at : k <= j
             IN  <<SubSeq(s, 1, i - 1)>> \o split(SubSeq(s, i + 1, Len(s)), sep)

\* Array.prototype.join(sep)
RECURSIVE join(_, _)
join(parts, sep) ==
    IF Len(parts) = 0 THEN <<>>
    ELSE IF Len(parts) = 1 THEN parts[1]
    ELSE parts[1] \o <<sep>> \o join(Tail(parts), sep)

\* String(n) for a non-negative integer: its decimal digits
DigitChar(d) ==
    CASE d = 0 -> "0" [] d = 1 -> "1" [] d = 2 -> "2" [] d = 3 -> "3"
      [] d = 4 -> "4" [] d = 5 -> "5" [] d = 6 -> "6" [] d = 7 -> "7"
      [] d = 8 -> "8" [] d = 9 -> "9"

RECURSIVE NumberToString(_)
NumberToString(n) ==
    IF n < 10 THEN <<DigitChar(n)>>
    ELSE NumberToString(n \div 10) \o <<DigitChar(n % 10)>>

\* s contains sub as a substring (String.prototype.includes)
Contains(s, sub) ==
    \E i \in 1..(Len(s) - Len(sub) + 1) : SubSeq(s, i, i + Len(sub) - 1) = sub

RECURSIVE Flatten(_)
Flatten(chunks) ==
    IF Len(chunks) = 0 THEN <<>> ELSE chunks[1] \o Flatten(Tail(chunks))

SeqsUpTo(S, n) == UNION {[1..k -> S] : k \in 0..n}

\* the strings made of at most n chunks of S
StringsOf(S, n) == {Flatten(cs) : cs \in SeqsUpTo(S, n)}

(***************************************************************************)
(* PropStackClient.sanitizeSearchQuery                                     *)
(***************************************************************************)
DangerousChars == {";", "<", ">", "'", "\""}

\* a variant that strips the two quote characters only
sanitizeSearchQueryQuotesOnly(query) ==
    SelectSeq(query, LAMBDA c : c \notin {"'", "\""})

sanitizeSearchQuery(query) == SelectSeq(query, LAMBDA c : c \notin DangerousChars)

(***************************************************************************)
(* JavaScript values of a record's fields.  A coordinate is a number in    *)
(* units of 0.0001 degree, so 0.001 degree is 10 units.                    *)
(***************************************************************************)
JNull == [type |-> "null"]

JNum(n) == [type |-> "number", val |-> n]

JStr(s) == [type |-> "string", val |-> s]

JObj(o) == [type |-> "object", val |-> o]

JArr(a) == [type |-> "array", val |-> a]

JUndefined == [type |-> "undefined"]

\* the truthiness of a value (`a || b`, `if (a)`, `a ? b : c`)
Truthy(v) ==
    CASE v.type = "number" -> v.val # 0
      [] v.type = "string" -> v.val # ""
      [] v.type \in {"function", "object", "array"} -> TRUE
      [] OTHER -> FALSE

\* unit.f on a record
Get(unit, f) == IF f \in DOMAIN unit THEN unit[f] ELSE JUndefined

\* v?.f on a value
Prop(v, f) ==
    IF v.type = "object" /\ f \in DOMAIN v.val THEN v.val[f] ELSE JUndefined

\* JSON.stringify of an object leaves out the properties that are undefined
JsonObject(o) == [f \in {g \in DOMAIN o : o[g].type # "undefined"} |-> o[f]]

\* extractValue (propstack-client)
extractValue(field) ==
    IF field.type \in {"null", "undefined"} THEN JNull
    ELSE IF field.type = "object" /\ "value" \in DOMAIN field.val
         THEN field.val["value"]
    ELSE field

(***************************************************************************)
(* PropStackClient.sanitizeError: three global, case-insensitive regular   *)
(* expression replacements applied one after the other.                    *)
(***************************************************************************)
S_key == <<"k","e","y">>

S_token == <<"t","o","k","e","n">>

S_bearer == <<"b","e","a","r","e","r">>

S_keyRedacted == <<"k","e","y","=","*","*","*">>

S_tokenRedacted == <<"t","o","k","e","n","=","*","*","*">>

S_bearerRedacted == <<"b","e","a","r","e","r"," ","*","*","*">>

\* the first index >= i of s whose character is not in S (Len(s)+1 if none)
SkipWhile(s, i, S) ==
    LET stop == {j \in i..(Len(s) + 1) : j = Len(s) + 1 \/ s[j] \notin S}
    IN  CHOOSE j \in stop : \A k \in stop : j <= k

\* the first index >= i of s whose character is in S (Len(s)+1 if none)
SkipUntil(s, i, S) ==
    LET stop == {j \in i..(Len(s) + 1) : j = Len(s) + 1 \/ s[j] \in S}
    IN  CHOOSE j \in stop : \A k \in stop : j <= k

\* the keyword kw stands at index i of s, letter case ignored (flag i)
KeywordAt(s, i, kw) ==
    /\ i + Len(kw) - 1 <= Len(s)
    /\ \A j \in 1..Len(kw) : LowerChar(s[i + j - 1]) = kw[j]

\* /kw[=:]\s*\S+/i at index i: the index of the match's last character, 0 if
\* there is no match at i
AssignMatchEnd(s, i, kw) ==
    LET p == i + Len(kw)
    IN  IF KeywordAt(s, i, kw) /\ p <= Len(s) /\ s[p] \in {"=", ":"}
        THEN LET q == SkipWhile(s, p + 1, Whitespace)
                 r == SkipUntil(s, q, Whitespace)
             IN  IF r > q THEN r - 1 ELSE 0
        ELSE 0

\* /kw\s+\S+/i at index i: the index of the match's last character, 0 if none
SpaceMatchEnd(s, i, kw) ==
    LET p == i + Len(kw)
    IN  IF KeywordAt(s, i, kw)
        THEN LET q == SkipWhile(s, p, Whitespace)
                 r == SkipUntil(s, q, Whitespace)
             IN  IF q > p /\ r > q THEN r - 1 ELSE 0
        ELSE 0

\* String.prototype.replace with a global regular expression: scan from the
\* left, replace each match, resume after it
RECURSIVE ReplaceAll(_, _, _, _, _)
ReplaceAll(s, i, kw, shape, replacement) ==
    IF i > Len(s) THEN <<>>
    ELSE LET e == IF shape = "assign" THEN AssignMatchEnd(s, i, kw)
                  ELSE SpaceMatchEnd(s, i, kw)
         IN  IF e > 0
             THEN replacement \o ReplaceAll(s, e + 1, kw, shape, replacement)
             ELSE <<s[i]>> \o ReplaceAll(s, i + 1, kw, shape, replacement)

sanitizeError(message) ==
    LET m1 == ReplaceAll(message, 1, S_key, "assign", S_keyRedacted)
        m2 == ReplaceAll(m1, 1, S_token, "assign", S_tokenRedacted)
    IN  ReplaceAll(m2, 1, S_bearer, "space", S_bearerRedacted)

(***************************************************************************)
(* Status catalog and PropStackClient.normalizeStatusParam                 *)
(***************************************************************************)
S_akquise == <<"a","k","q","u","i","s","e">>

S_vorbereitung == <<"v","o","r","b","e","r","e","i","t","u","n","g">>

S_vermarktung == <<"v","e","r","m","a","r","k","t","u","n","g">>

S_reserviert == <<"r","e","s","e","r","v","i","e","r","t">>

S_abgeschlossen == <<"a","b","g","e","s","c","h","l","o","s","s","e","n">>

PROPSTACK_STATUS ==
    [AKQUISE |-> 133878, VORBEREITUNG |-> 133879, VERMARKTUNG |-> 133880,
     RESERVIERT |-> 133881, ABGESCHLOSSEN |-> 133882]

STATUS_NAME_TO_ID ==
    (S_akquise :> 133878) @@ (S_vorbereitung :> 133879) @@
    (S_vermarktung :> 133880) @@ (S_reserviert :> 133881) @@
    (S_abgeschlossen :> 133882)

\* STATUS_NAME_TO_ID is a plain object literal: a property read that misses
\* its own keys falls through to Object.prototype.  Of the inherited names
\* only these two are all lower case, so only they can equal a lowercased part.
S_constructor == <<"c","o","n","s","t","r","u","c","t","o","r">>

S_proto == <<"_","_","p","r","o","t","o","_","_">>

S_functionObject ==
    <<"f","u","n","c","t","i","o","n"," ","O","b","j","e","c","t","(",")"," ",
      "{"," ","[","n","a","t","i","v","e"," ","c","o","d","e","]"," ","}">>

S_objectObject == <<"[","o","b","j","e","c","t"," ","O","b","j","e","c","t","]">>

\* STATUS_NAME_TO_ID[part]
StatusLookup(part) ==
    IF part \in DOMAIN STATUS_NAME_TO_ID
    THEN [type |-> "number", val |-> STATUS_NAME_TO_ID[part]]
    ELSE IF part = S_constructor THEN [type |-> "function"]
    ELSE IF part = S_proto THEN [type |-> "object"]
    ELSE [type |-> "undefined"]

\* String(id)
StringOf(v) ==
    CASE v.type = "number" -> NumberToString(v.val)
      [] v.type = "function" -> S_functionObject
      [] OTHER -> S_objectObject

\* /^\d+$/.test(part)
IsNumeric(part) == Len(part) > 0 /\ \A i \in 1..Len(part) : part[i] \in Digits

NormalizePart(part) ==
    IF IsNumeric(part) THEN part
    ELSE LET id == StatusLookup(part)
         IN  IF Truthy(id) THEN StringOf(id) ELSE part

\* a variant that looks names up as written, without trimming or lowercasing
normalizeStatusParamAsWritten(status) ==
    LET raw == split(status, ",")
        normalized == [i \in 1..Len(raw) |-> NormalizePart(raw[i])]
    IN  join(normalized, ",")

normalizeStatusParam(status) ==
    LET raw == split(status, ",")
        statusParts == [i \in 1..Len(raw) |-> toLowerCase(trim(raw[i]))]
        normalized == [i \in 1..Len(raw) |-> NormalizePart(statusParts[i])]
    IN  join(normalized, ",")

(***************************************************************************)
(* sanitizeProperty (index.ts)                                             *)
(***************************************************************************)
BrokerFields ==
    {"broker", "openimmo_email", "openimmo_firstname", "openimmo_lastname",
     "openimmo_phone"}

MediaFields == {"images", "documents", "videos", "360_views"}

\* a variant that cuts the coordinate after the third decimal
RoundCoordTruncating(n) == 10 * (n \div 10)

\* Math.round(x * 1000) / 1000 on a coordinate x of n units: Math.round
\* rounds to the nearest integer, a tie towards +Infinity
RoundCoord(n) == 10 * ((n + 5) \div 10)

\* a variant that removes the broker object and keeps the contact fields
sanitizePropertyBrokerOnly(property, removeMedia) ==
    LET rounded ==
            [f \in DOMAIN property |->
                IF f \in {"lat", "lng"} /\ property[f].type = "number"
                THEN JNum(RoundCoord(property[f].val))
                ELSE property[f]]
        drop == {"broker"} \cup (IF removeMedia THEN MediaFields ELSE {})
    IN  [f \in DOMAIN rounded \ drop |-> rounded[f]]

\* a variant that works on the record it is given: const sanitized = property
PropertyAfterCallInPlace(property, removeMedia) ==
    LET rounded ==
            [f \in DOMAIN property |->
                IF f \in {"lat", "lng"} /\ property[f].type = "number"
                THEN JNum(RoundCoord(property[f].val))
                ELSE property[f]]
        drop == BrokerFields \cup (IF removeMedia THEN MediaFields ELSE {})
    IN  [f \in DOMAIN rounded \ drop |-> rounded[f]]

\* the caller's record once sanitizeProperty has returned: the assignments
\* and deletes act on the copy { ...property }
PropertyAfterCall(property, removeMedia) == property

sanitizeProperty(property, removeMedia) ==
    LET rounded ==
            [f \in DOMAIN property |->
                IF f \in {"lat", "lng"} /\ property[f].type = "number"
                THEN JNum(RoundCoord(property[f].val))
                ELSE property[f]]
        drop == BrokerFields \cup (IF removeMedia THEN MediaFields ELSE {})
    IN  [f \in DOMAIN rounded \ drop |-> rounded[f]]

(***************************************************************************)
(* PropStackClient.searchProperties: the query it builds.  SearchParams    *)
(* and URLSearchParams are functions from the names present to values;     *)
(* numbers are numbers in SearchParams and their decimal digits in a query.*)
(***************************************************************************)
S_1 == <<"1">>

NumberParams == {"per", "price_from", "price_to", "plot_area", "page"}

\* `if (params.x)`: present and truthy (not 0, not the empty string)
Supplied(params, name) ==
    /\ name \in DOMAIN params
    /\ IF name \in NumberParams THEN params[name] # 0 ELSE params[name] # <<>>

\* queryParams.set(name, String(params[name])) when params[name] is truthy
OptionalNumber(params, name) ==
    IF Supplied(params, name) THEN name :> NumberToString(params[name]) ELSE <<>>

\* a variant that always sends a page and drops the optional filters
SearchQueryAlwaysPage(params) ==
    ("per" :> NumberToString(IF Supplied(params, "per") THEN params["per"] ELSE 500))
    @@ ("with_meta" :> S_1)
    @@ ("page" :> NumberToString(IF "page" \in DOMAIN params THEN params["page"] ELSE 1))

SearchQuery(params) ==
    ("per" :> NumberToString(IF Supplied(params, "per") THEN params["per"] ELSE 500))
    @@ ("with_meta" :> S_1)
    @@ OptionalNumber(params, "price_from")
    @@ OptionalNumber(params, "price_to")
    @@ OptionalNumber(params, "plot_area")
    @@ (IF Supplied(params, "property_type")
        THEN "property_type" :> sanitizeSearchQuery(params["property_type"])
        ELSE <<>>)
    @@ (IF Supplied(params, "status")
        THEN "status" :> normalizeStatusParam(params["status"])
        ELSE <<>>)
    @@ OptionalNumber(params, "page")

(***************************************************************************)
(* The upstream API: what a fetch can come back with.                      *)
(***************************************************************************)
PROPSTACK_API_BASE ==
    <<"h","t","t","p","s",":","/","/","a","p","i",".","p","r","o","p","s","t","a","c","k",".",
      "d","e","/","v","1">>

StatusObject(id, name) == JObj([id |-> JNum(id), name |-> JStr(name)])

\* a record as a search without expand returns it
SummaryUnit ==
    [id |-> JNum(1), unit_id |-> JStr("100"), name |-> JStr("Haus am See"),
     title |-> JStr("Seeblick"), city |-> JStr("Berlin"),
     street |-> JStr("Uferweg"), house_number |-> JStr("7"),
     status |-> StatusObject(133880, "Vermarktung"),
     property_status |-> StatusObject(133882, "Abgeschlossen"),
     price |-> JObj([label |-> JStr("Preis"), value |-> JNum(450000)]),
     living_space |-> JNum(120), number_of_rooms |-> JNull,
     lat |-> JNum(524375), lng |-> JNum(134049),
     broker |-> JObj([name |-> JStr("M. Makler")]),
     openimmo_email |-> JStr("makler@example.com"),
     images |-> JArr(<<"img-1">>)]

\* a record as a search with expand=1 returns it
DetailUnit ==
    [id |-> JNum(2071903), unit_id |-> JStr("2071903"), name |-> JStr("Villa"),
     title |-> JObj([label |-> JStr("Titel"), value |-> JStr("Villa Sonne")]),
     city |-> JStr("Hamburg"), street |-> JStr("Elbchaussee"),
     property_status |-> StatusObject(133881, "Reserviert"),
     price |-> JNum(990000),
     living_space |-> JObj([label |-> JStr("Flaeche"), value |-> JNum(240)]),
     number_of_rooms |-> JObj([label |-> JStr("Zimmer"), value |-> JNum(8)]),
     lat |-> JNum(0 - 335555), lng |-> JNum(99996),
     broker |-> JObj([name |-> JStr("B. Broker")]),
     openimmo_email |-> JStr("broker@example.com"),
     openimmo_firstname |-> JStr("B."), openimmo_lastname |-> JStr("Broker"),
     openimmo_phone |-> JStr("+49 40 1"),
     images |-> JArr(<<"img-2">>), documents |-> JArr(<<"doc-1">>),
     videos |-> JArr(<<>>)]
    @@ ("360_views" :> JArr(<<"view-1">>))

\* a record with hardly any field
BareUnit ==
    [id |-> JNum(3), unit_id |-> JStr("3"), name |-> JStr("Grundstueck"),
     lat |-> JNull, price |-> JNull]

UpstreamUnits == {SummaryUnit, DetailUnit, BareUnit}

UnitLists == SeqsUpTo(UpstreamUnits, MaxUnits)

UpstreamStatuses ==
    { <<>>,
      << [id |-> JNum(133880), name |-> JStr("Vermarktung")],
         [id |-> JNum(133881), name |-> JStr("Reserviert")] >>,
      << [id |-> JNum(133882), name |-> JStr("Abgeschlossen"), lat |-> JNum(524375),
          broker |-> JObj([name |-> JStr("M. Makler")])] >> }

S_fetchFailed == <<"f","e","t","c","h"," ","f","a","i","l","e","d">>

S_connectFailed ==
    <<"c","o","n","n","e","c","t"," ","f","a","i","l","e","d"," ","t","o","k","e","n",":",
      " ","B","e","a","r","e","r"," ","s","1">>

S_NotFound == <<"N","o","t"," ","F","o","u","n","d">>

S_Unauthorized ==
    <<"U","n","a","u","t","h","o","r","i","z","e","d"," ","k","e","y","=","s","1">>

S_TooManyRequests ==
    <<"T","o","o"," ","M","a","n","y"," ","R","e","q","u","e","s","t","s">>

\* fetch rejects, or resolves with !ok, or with a body that is not JSON
FailedReplies ==
    { [kind |-> "networkError", message |-> S_fetchFailed],
      [kind |-> "networkError", message |-> S_connectFailed],
      [kind |-> "http", status |-> 404, statusText |-> S_NotFound],
      [kind |-> "http", status |-> 401, statusText |-> S_Unauthorized],
      [kind |-> "http", status |-> 429, statusText |-> S_TooManyRequests],
      [kind |-> "badJson"] }

OkReply(body) == [kind |-> "ok", body |-> body]

\* the bodies /units answers with: the envelope (with or without meta), the
\* bare array, and shapes that are neither
UnitBodies ==
    {JObj([data |-> JArr(us)]) : us \in UnitLists}
    \cup {JObj([data |-> JArr(us), meta |-> JObj([total_count |-> JNum(n)])]) :
            us \in UnitLists, n \in {0, 7}}
    \cup {JArr(us) : us \in UnitLists}
    \cup {JNull, JObj([message |-> JStr("maintenance")]),
          JObj([data |-> JStr("none")]), JObj([data |-> JNull])}

StatusBodies ==
    {JObj([data |-> JArr(ss)]) : ss \in UpstreamStatuses}
    \cup {JNull, JObj([message |-> JStr("maintenance")]), JObj([data |-> JNull])}

RepliesFor(path) ==
    FailedReplies \cup
    {OkReply(b) : b \in IF path = "/units" THEN UnitBodies ELSE StatusBodies}

(***************************************************************************)
(* PropStackClient.request, searchProperties, getProperty, listStatuses    *)
(***************************************************************************)
S_apiError ==
    <<"P","r","o","p","S","t","a","c","k"," ","A","P","I"," ","e","r","r","o","r",":"," ">>

S_badJson ==
    <<"U","n","e","x","p","e","c","t","e","d"," ","t","o","k","e","n"," ","<"," ","i","n"," ",
      "J","S","O","N"," ","a","t"," ","p","o","s","i","t","i","o","n"," ","0">>

S_cannotRead ==
    <<"C","a","n","n","o","t"," ","r","e","a","d"," ","p","r","o","p","e","r","t","i","e","s",
      " ","o","f"," ","n","u","l","l"," ","(","r","e","a","d","i","n","g"," ","'","d","a","t",
      "a","'",")">>

S_unexpectedFormat ==
    <<"U","n","e","x","p","e","c","t","e","d"," ","A","P","I"," ","r","e","s","p","o","n","s",
      "e"," ","f","o","r","m","a","t">>

S_propertyWithUnitId ==
    <<"P","r","o","p","e","r","t","y"," ","w","i","t","h"," ","u","n","i","t","_","i","d"," ">>

S_notFound == <<" ","n","o","t"," ","f","o","u","n","d">>

\* a thrown Error; redacted tells whether sanitizeError produced it
Thrown(message, redacted) == [ok |-> FALSE, message |-> message, redacted |-> redacted]

Returned(value) == [ok |-> TRUE, value |-> value]

\* a variant that sends no key header
FetchCallWithoutKey(path, query) ==
    [base |-> PROPSTACK_API_BASE, path |-> path, query |-> query,
     method |-> "GET", body |-> "none",
     headers |-> ("Content-Type" :> "application/json")]

\* the fetch call of request(): GET (no method, no body given), two headers
FetchCall(path, query) ==
    [base |-> PROPSTACK_API_BASE, path |-> path, query |-> query,
     method |-> "GET", body |-> "none",
     headers |-> ("X-API-KEY" :> apiKey) @@ ("Content-Type" :> "application/json")]

\* a variant whose error for a non-2xx reply leaves the status text out
RequestOutcomeWithoutStatusText(settled) ==
    CASE settled.kind = "networkError" -> Thrown(sanitizeError(settled.message), TRUE)
      [] settled.kind = "http" ->
            Thrown(sanitizeError(S_apiError \o NumberToString(settled.status)), TRUE)
      [] settled.kind = "badJson" -> Thrown(sanitizeError(S_badJson), TRUE)
      [] OTHER -> Returned(settled.body)

\* request() once the fetch has settled: every error raised inside its try
\* leaves through sanitizeError
RequestOutcome(settled) ==
    CASE settled.kind = "networkError" -> Thrown(sanitizeError(settled.message), TRUE)
      [] settled.kind = "http" ->
            Thrown(sanitizeError(S_apiError \o NumberToString(settled.status)
                                 \o <<" ">> \o settled.statusText), TRUE)
      [] settled.kind = "badJson" -> Thrown(sanitizeError(S_badJson), TRUE)
      [] OTHER -> Returned(settled.body)

\* apiResponse.data && Array.isArray(apiResponse.data)
HasDataArray(body) ==
    body.type = "object" /\ "data" \in DOMAIN body.val /\ body.val["data"].type = "array"

\* apiResponse.meta?.total_count || apiResponse.data.length
TotalOf(body) ==
    LET n == Prop(Prop(body, "meta"), "total_count")
    IN  IF Truthy(n) THEN n.val ELSE Len(body.val["data"].val)

\* searchProperties after the request
ParseSearch(out) ==
    IF ~out.ok THEN out
    ELSE IF out.value.type = "null" THEN Thrown(S_cannotRead, FALSE)
    ELSE IF HasDataArray(out.value)
         THEN Returned([units |-> out.value.val["data"].val, total |-> TotalOf(out.value)])
    ELSE IF out.value.type = "array"
         THEN Returned([units |-> out.value.val, total |-> Len(out.value.val)])
    ELSE Thrown(S_unexpectedFormat, FALSE)

\* a variant that answers an empty record when nothing matches
FirstMatchOrEmpty(units, unitId) ==
    IF Len(units) = 0 THEN Returned(<<>>) ELSE Returned(units[1])

\* the first match, or the not-found error naming the unit id
FirstMatch(units, unitId) ==
    IF Len(units) = 0
    THEN Thrown(S_propertyWithUnitId \o unitId \o S_notFound, FALSE)
    ELSE Returned(units[1])

\* getProperty after the request
ParseGet(out, unitId) ==
    IF ~out.ok THEN out
    ELSE IF out.value.type = "null" THEN Thrown(S_cannotRead, FALSE)
    ELSE IF HasDataArray(out.value) THEN FirstMatch(out.value.val["data"].val, unitId)
    ELSE IF out.value.type = "array" THEN FirstMatch(out.value.val, unitId)
    ELSE Thrown(S_unexpectedFormat, FALSE)

\* listStatuses after the request: response.data || []
ParseStatuses(out) ==
    IF ~out.ok THEN out
    ELSE IF out.value.type = "null" THEN Thrown(S_cannotRead, FALSE)
    ELSE IF Truthy(Prop(out.value, "data")) THEN Returned(Prop(out.value, "data").val)
    ELSE Returned(<<>>)

\* a variant that asks for the record without expansion
GetQueryWithoutExpand(unitId) ==
    ("unit_id" :> unitId) @@ ("with_meta" :> S_1)

\* the query getProperty builds
GetQuery(unitId) ==
    ("unit_id" :> unitId) @@ ("expand" :> S_1) @@ ("with_meta" :> S_1)

(***************************************************************************)
(* new PropStackClient(config), and the start of the process in index.ts   *)
(***************************************************************************)
S_https == <<"h","t","t","p","s",":","/","/">>

S_keyRequired == "PropStack API key is required"

S_httpsRequired == "HTTPS required for PropStack API"

S_envRequired == "Error: PROPSTACK_API_KEY environment variable is required"

\* String.prototype.startsWith
startsWith(s, prefix) ==
    Len(s) >= Len(prefix) /\ SubSeq(s, 1, Len(prefix)) = prefix

\* the constructor: throws, or sets apiKey and baseUrl
PropStackClient(config) ==
    IF ~Truthy(Get(config, "apiKey")) THEN Thrown(S_keyRequired, FALSE)
    ELSE IF ~startsWith(PROPSTACK_API_BASE, S_https) THEN Thrown(S_httpsRequired, FALSE)
    ELSE Returned([apiKey |-> config["apiKey"].val, baseUrl |-> PROPSTACK_API_BASE])

\* a variant of the start-up test that lets an empty key through
EnvKeyMissingWhenUndefined(value) == value.type = "undefined"

\* !PROPSTACK_API_KEY
EnvKeyMissing(value) == ~Truthy(value)

\* the request kinds index.ts registers a handler for
RequestSchemas ==
    {"tools/list", "tools/call", "resources/list", "resources/read", "prompts/list",
     "prompts/get"}

Starting == [state |-> "starting", handlers |-> {}]

Running == [state |-> "running", handlers |-> RequestSchemas]

\* process.exit(1) after console.error, or an uncaught error at module load
Exited(diagnostic) ==
    [state |-> "exited", handlers |-> {}, code |-> 1, stderr |-> diagnostic]

(***************************************************************************)
(* The handlers of index.ts: what each branch returns once the client      *)
(* call has returned.  A result carries the payload that is serialized and *)
(* the sanitizeProperty calls that were made to build it.                  *)
(***************************************************************************)
S_searchTool ==
    <<"p","r","o","p","s","t","a","c","k","_","s","e","a","r","c","h","_","p","r","o","p","e",
      "r","t","i","e","s">>

S_getTool ==
    <<"p","r","o","p","s","t","a","c","k","_","g","e","t","_","p","r","o","p","e","r","t","y">>

S_listTool ==
    <<"p","r","o","p","s","t","a","c","k","_","l","i","s","t","_","s","t","a","t","u","s","e",
      "s">>

S_overviewPrompt ==
    <<"p","r","o","p","s","t","a","c","k","-","o","v","e","r","v","i","e","w">>

S_uriAll ==
    <<"p","r","o","p","s","t","a","c","k",":","/","/","p","r","o","p","e","r","t","i","e","s",
      "/","a","l","l">>

S_uriActive ==
    <<"p","r","o","p","s","t","a","c","k",":","/","/","p","r","o","p","e","r","t","i","e","s",
      "/","a","c","t","i","v","e">>

S_uriSingle ==
    <<"p","r","o","p","s","t","a","c","k",":","/","/","p","r","o","p","e","r","t","i","e","s",
      "/","s","i","n","g","l","e","/">>

S_uriSingleAll ==
    <<"p","r","o","p","s","t","a","c","k",":","/","/","p","r","o","p","e","r","t","i","e","s",
      "/","s","i","n","g","l","e","_","a","l","l","/">>

S_errorPrefix == <<"E","r","r","o","r",":"," ">>

S_unknownTool == <<"U","n","k","n","o","w","n"," ","t","o","o","l",":"," ">>

S_unknownResource ==
    <<"U","n","k","n","o","w","n"," ","r","e","s","o","u","r","c","e",":"," ">>

\* the TypeError of `const { unit_id } = request.params.arguments` when the
\* request has no arguments
S_cannotDestructure ==
    <<"C","a","n","n","o","t"," ","d","e","s","t","r","u","c","t","u","r","e"," ","p","r","o",
      "p","e","r","t","y"," ","'","u","n","i","t","_","i","d","'"," ","o","f"," ","'","r","e",
      "q","u","e","s","t",".","p","a","r","a","m","s",".","a","r","g","u","m","e","n","t","s",
      "'"," ","a","s"," ","i","t"," ","i","s"," ","u","n","d","e","f","i","n","e","d",".">>

S_unknownPrompt == <<"U","n","k","n","o","w","n"," ","p","r","o","m","p","t",":"," ">>

Call(property, removeMedia) == [property |-> property, removeMedia |-> removeMedia]

\* a variant that looks at property_status first
StatusObjPreferringDetail(unit) ==
    IF Truthy(Get(unit, "property_status")) THEN Get(unit, "property_status")
    ELSE Get(unit, "status")

\* statusObj = unit.status || unit.property_status
StatusObj(unit) ==
    IF Truthy(Get(unit, "status")) THEN Get(unit, "status")
    ELSE Get(unit, "property_status")

\* statusObj?.name || 'Unknown'
StatusName(unit) ==
    IF Truthy(Prop(StatusObj(unit), "name")) THEN Prop(StatusObj(unit), "name")
    ELSE JStr("Unknown")

\* the overview entry of the search tool
ToolOverview(unit) ==
    [id |-> Get(unit, "id"), unit_id |-> Get(unit, "unit_id"),
     name |-> Get(unit, "name"), title |-> extractValue(Get(unit, "title")),
     city |-> Get(unit, "city"), street |-> Get(unit, "street"),
     house_number |-> Get(unit, "house_number"),
     status |-> StatusName(unit), status_id |-> Prop(StatusObj(unit), "id"),
     price |-> extractValue(Get(unit, "price")),
     living_space |-> extractValue(Get(unit, "living_space")),
     rooms |-> extractValue(Get(unit, "number_of_rooms"))]

\* a variant that gives the resources the search tool's entry
ResourceOverviewLikeTool(unit) == ToolOverview(unit)

\* the overview entry of the resources properties/all and properties/active
ResourceOverview(unit) ==
    [id |-> Get(unit, "id"), unit_id |-> Get(unit, "unit_id"),
     name |-> Get(unit, "name"), city |-> Get(unit, "city"),
     street |-> Get(unit, "street"), status |-> StatusName(unit)]

\* case 'propstack_search_properties'
ToolSearchResult(found) ==
    [payload |->
        [properties |-> [i \in 1..Len(found.units) |-> JsonObject(ToolOverview(found.units[i]))],
         total |-> found.total, count |-> Len(found.units)],
     calls |-> <<>>]

\* the properties/all and properties/active branches
ResourceOverviewResult(found) ==
    [payload |->
        [properties |->
            [i \in 1..Len(found.units) |-> JsonObject(ResourceOverview(found.units[i]))],
         total |-> found.total],
     calls |-> <<>>]

\* a variant that serializes the record as fetched
ToolGetResultUnsanitized(property) == [payload |-> property, calls |-> <<>>]

\* case 'propstack_get_property'
ToolGetResult(property) ==
    [payload |-> sanitizeProperty(property, FALSE), calls |-> <<Call(property, FALSE)>>]

\* a variant that keeps the media fields
ResourceSingleResultKeepingMedia(property) ==
    [payload |-> sanitizeProperty(property, FALSE), calls |-> <<Call(property, FALSE)>>]

\* the properties/single/{unit_id} branch
ResourceSingleResult(property) ==
    [payload |-> sanitizeProperty(property, TRUE), calls |-> <<Call(property, TRUE)>>]

\* the properties/single_all/{unit_id} branch
ResourceSingleAllResult(property) ==
    [payload |-> sanitizeProperty(property, FALSE), calls |-> <<Call(property, FALSE)>>]

\* a variant that keeps the media fields
PromptOverviewResultKeepingMedia(found) ==
    [payload |->
        [total |-> found.total,
         units |-> [i \in 1..Len(found.units) |-> sanitizeProperty(found.units[i], FALSE)]],
     calls |-> [i \in 1..Len(found.units) |-> Call(found.units[i], FALSE)]]

\* the propstack-overview prompt
PromptOverviewResult(found) ==
    [payload |->
        [total |-> found.total,
         units |-> [i \in 1..Len(found.units) |-> sanitizeProperty(found.units[i], TRUE)]],
     calls |-> [i \in 1..Len(found.units) |-> Call(found.units[i], TRUE)]]

\* a variant that passes every status through sanitizeProperty
ToolStatusesResultSanitized(statuses) ==
    [payload |-> [i \in 1..Len(statuses) |-> sanitizeProperty(statuses[i], FALSE)],
     calls |-> [i \in 1..Len(statuses) |-> Call(statuses[i], FALSE)]]

\* case 'propstack_list_statuses'
ToolStatusesResult(statuses) == [payload |-> statuses, calls |-> <<>>]

NoResponse == [kind |-> "none"]

\* no client call has returned yet
NotAwaited == [kind |-> "none"]

ResultResponse(payload) == [kind |-> "result", payload |-> payload]

\* a variant that lets the error leave the tool handler
ToolErrorRethrown(err) ==
    [kind |-> "thrown", message |-> err.message, redacted |-> err.redacted]

\* a variant whose catch redacts the message before returning it
ToolErrorResponseRedacted(err) ==
    [kind |-> "toolError", isError |-> TRUE,
     text |-> S_errorPrefix \o sanitizeError(err.message),
     message |-> sanitizeError(err.message), redacted |-> TRUE]

\* the catch of the tool handler: the error becomes a payload
ToolErrorResponse(err) ==
    [kind |-> "toolError", isError |-> TRUE, text |-> S_errorPrefix \o err.message,
     message |-> err.message, redacted |-> err.redacted]

\* the resource and prompt handlers have no catch: the error leaves the handler
ThrownResponse(err) ==
    [kind |-> "thrown", message |-> err.message, redacted |-> err.redacted]

ToolBranches == {"tool_search", "tool_get", "tool_statuses"}

SearchBranches == {"tool_search", "resource_all", "resource_active", "prompt_overview"}

GetBranches == {"tool_get", "resource_single", "resource_single_all"}

\* the client call of a branch, after the request
ClientResult(b, out, unitId) ==
    IF b \in SearchBranches THEN ParseSearch(out)
    ELSE IF b \in GetBranches THEN ParseGet(out, unitId)
    ELSE ParseStatuses(out)

\* the rest of the branch, after the client call returned value v
BranchResult(b, v) ==
    CASE b = "tool_search" -> ToolSearchResult(v)
      [] b = "tool_get" -> ToolGetResult(v)
      [] b = "tool_statuses" -> ToolStatusesResult(v)
      [] b \in {"resource_all", "resource_active"} -> ResourceOverviewResult(v)
      [] b = "resource_single" -> ResourceSingleResult(v)
      [] b = "resource_single_all" -> ResourceSingleAllResult(v)
      [] b = "prompt_overview" -> PromptOverviewResult(v)

\* /^prefix(.+)$/: the prefix, then one or more characters none of which is
\* a line terminator
LineTerminators == {"\n", "\r"}

Matches(uri, prefix) ==
    /\ Len(uri) > Len(prefix)
    /\ SubSeq(uri, 1, Len(prefix)) = prefix
    /\ \A i \in (Len(prefix) + 1)..Len(uri) : uri[i] \notin LineTerminators

\* the capture group
Captured(uri, prefix) == SubSeq(uri, Len(prefix) + 1, Len(uri))

\* a variant that serves every other URI like properties/all
ResourceBranchDefaultAll(uri) ==
    IF uri = S_uriActive THEN "resource_active"
    ELSE IF Matches(uri, S_uriSingle) THEN "resource_single"
    ELSE IF Matches(uri, S_uriSingleAll) THEN "resource_single_all"
    ELSE "resource_all"

\* a variant whose single pattern lacks the closing slash
ResourceBranchLooseSingle(uri) ==
    IF uri = S_uriAll THEN "resource_all"
    ELSE IF uri = S_uriActive THEN "resource_active"
    ELSE IF Matches(uri, SubSeq(S_uriSingle, 1, Len(S_uriSingle) - 1)) THEN "resource_single"
    ELSE IF Matches(uri, S_uriSingleAll) THEN "resource_single_all"
    ELSE "unknown"

\* the branch of the ReadResource handler that serves a URI
ResourceBranch(uri) ==
    IF uri = S_uriAll THEN "resource_all"
    ELSE IF uri = S_uriActive THEN "resource_active"
    ELSE IF Matches(uri, S_uriSingle) THEN "resource_single"
    ELSE IF Matches(uri, S_uriSingleAll) THEN "resource_single_all"
    ELSE "unknown"

\* a variant that filters on Reserviert only
ActiveStatusReservedOnly == NumberToString(PROPSTACK_STATUS.RESERVIERT)

\* the status filter of properties/active
ActiveStatus ==
    NumberToString(PROPSTACK_STATUS.VERMARKTUNG) \o <<",">>
    \o NumberToString(PROPSTACK_STATUS.RESERVIERT)

(***************************************************************************)
(* Inputs of the functions studied on their own.                           *)
(***************************************************************************)
ErrorChunks ==
    { <<"k","e","y","=">>, <<"t","o","k","e","n","=">>, <<"b","e","a","r","e","r"," ">>,
      <<"T","o","k","e","n",":"," ">>, <<"B","E","A","R","E","R","\t">>,
      <<"k","e","y">>, <<"s","1">>, <<"z">>, <<" ">> }

ErrorMessages == StringsOf(ErrorChunks, MaxErrorChunks)

StatusChunks ==
    { S_akquise, <<"V","e","r","m","a","r","k","t","u","n","g">>, S_reserviert,
      <<"1","3","3","8","8","1">>, <<",">>, <<" ">>, <<"F","o","o">>,
      S_constructor }

StatusInputs == StringsOf(StatusChunks, MaxStatusChunks)

TypeChunks == { <<"A">>, <<"-">>, <<" ">>, <<";">>, <<"<">>, <<">">>, <<"'">>, <<"\"">> }

TypeInputs == StringsOf(TypeChunks, MaxTypeChunks)

\* the values a caller gives each search parameter; 0 and "" are falsy
ParamValues ==
    [per |-> <<0, 25, 600>>, price_from |-> <<0, 300000>>,
     price_to |-> <<0, 500000>>, plot_area |-> <<0, 1500>>, page |-> <<0, 2>>,
     property_type |-> << <<>>, <<"V","I","L","L","A">>, <<"A","'",";">> >>,
     status |-> << <<>>, S_vermarktung,
                   <<"R","e","s","e","r","v","i","e","r","t",",","7">> >>]

\* SearchParams with at most MaxSupplied parameters present: a choice gives
\* each parameter the index of its value, 0 for a parameter left out
SmallSearchParams ==
    LET choices ==
            {c \in [DOMAIN ParamValues -> 0..3] :
                /\ \A n \in DOMAIN c : c[n] <= Len(ParamValues[n])
                /\ Cardinality({n \in DOMAIN c : c[n] > 0}) <= MaxSupplied}
    IN  { [n \in {m \in DOMAIN c : c[m] > 0} |-> ParamValues[n][c[n]]] :
            c \in choices }

SearchInputs ==
    SmallSearchParams \cup {"property_type" :> t : t \in TypeInputs}

CoordOptions ==
    {JNull, JStr("48.1374"), [type |-> "absent"]} \cup {JNum(n) : n \in -MaxCoord..MaxCoord}

\* the longitude paired with a latitude option, so that both fields range
\* over every kind of value
Mirror(a) ==
    CASE a.type = "number" -> JNum(0 - a.val)
      [] a.type = "null" -> JStr("11.5755")
      [] a.type = "string" -> [type |-> "absent"]
      [] OTHER -> JNull

CoordPart(a) ==
    (IF a.type = "absent" THEN <<>> ELSE "lat" :> a)
    @@ (IF Mirror(a).type = "absent" THEN <<>> ELSE "lng" :> Mirror(a))

FieldValue(f) ==
    IF f \in MediaFields THEN JArr(<<f>>)
    ELSE IF f = "broker" THEN JObj([name |-> "broker"])
    ELSE JStr(f)

PropertyInputs ==
    { ("name" :> JStr("Haus")) @@ CoordPart(a) @@ [f \in fs |-> FieldValue(f)] :
        a \in CoordOptions, fs \in SUBSET (BrokerFields \cup MediaFields) }

(***************************************************************************)
(* Requests the host sends.                                                *)
(***************************************************************************)
S_deleteTool ==
    <<"p","r","o","p","s","t","a","c","k","_","d","e","l","e","t","e">>

S_uriOther ==
    <<"p","r","o","p","s","t","a","c","k",":","/","/","p","r","o","p","e","r","t","i","e","s",
      "/","o","t","h","e","r">>

ToolNames ==
    {S_searchTool, S_getTool, S_listTool, S_deleteTool, <<"t","o","k","e","n","=","z">>}

UnitIds == { <<"1","0","0">>, <<"k","e","y","=","s","1">>, <<"b","a","d","@","i","d">> }

\* the search tool's arguments: at most one parameter at a time
ServerSearchParams == {ps \in SmallSearchParams : Cardinality(DOMAIN ps) <= 1}

ToolArguments(name) ==
    IF name = S_searchTool THEN ServerSearchParams
    ELSE IF name = S_getTool THEN {[unit_id |-> id] : id \in UnitIds} \cup {JUndefined}
    ELSE {<<>>}

Uris ==
    {S_uriAll, S_uriActive, S_uriSingle, S_uriSingleAll, S_uriOther}
    \cup {S_uriSingle \o id : id \in UnitIds \cup {<<"a","\n","b">>}}
    \cup {S_uriSingleAll \o id : id \in UnitIds \cup {<<"a","\n","b">>}}

PromptNames == {S_overviewPrompt, <<"o","t","h","e","r">>}

\* the prompt's arguments: no status_filter, an empty one, a name
PromptArguments == {<<>>, [status_filter |-> <<>>], [status_filter |-> S_reserviert]}

(***************************************************************************)
(* The server: one action per request handler, and one for the fetch that  *)
(* a handler awaits.  A handler that issues a fetch stops at               *)
(* pc = "fetching"; FetchCompletes runs the rest of it.                    *)
(***************************************************************************)
PureIdle ==
    /\ spArg = <<>> /\ spRet = <<>>
    /\ seArg = <<>> /\ seRet = <<>>
    /\ nsArg = <<>> /\ nsRet = <<>>
    /\ sqArg = <<>> /\ sqRet = <<>>
    /\ ctorArg = <<>> /\ ctorRet = <<>>
    /\ applied = FALSE

\* the state once index.ts has built the client and registered the handlers
ServerIdle ==
    /\ env = JStr("test-key-12345")
    /\ proc = Running
    /\ apiKey = "test-key-12345"
    /\ pc = "idle"
    /\ request = [method |-> "none"]
    /\ branch = "none"
    /\ fetchLog = <<>>
    /\ sanitizeLog = <<>>
    /\ reply = [kind |-> "none"]
    /\ awaited = NotAwaited
    /\ response = NoResponse

Init == ServerIdle /\ PureIdle

\* the handler reaches `await fetch(...)`
Issue(b, path, query) ==
    /\ branch' = b
    /\ fetchLog' = <<FetchCall(path, query)>>
    /\ pc' = "fetching"
    /\ awaited' = NotAwaited
    /\ response' = NoResponse

\* a variant that ends without a client call and leaves the last response
\* in place
FinishKeepingResponse(resp) ==
    /\ branch' = "none"
    /\ fetchLog' = <<>>
    /\ pc' = "done"
    /\ awaited' = NotAwaited
    /\ response' = IF response = NoResponse THEN resp ELSE response

\* the handler ends without a client call
Finish(resp) ==
    /\ branch' = "none"
    /\ fetchLog' = <<>>
    /\ pc' = "done"
    /\ awaited' = NotAwaited
    /\ response' = resp

\* CallToolRequestSchema handler, up to the fetch
CallTool ==
    /\ "tools/call" \in proc.handlers
    /\ pc # "fetching"
    /\ \E name \in ToolNames : \E args \in ToolArguments(name) :
          /\ request' = [method |-> "tools/call", name |-> name, arguments |-> args]
          /\ IF name = S_searchTool
             THEN Issue("tool_search", "/units", SearchQuery(args))
             ELSE IF name = S_getTool
             THEN IF args = JUndefined
                  THEN Finish(ToolErrorResponse(Thrown(S_cannotDestructure, FALSE)))
                  ELSE Issue("tool_get", "/units", GetQuery(args.unit_id))
             ELSE IF name = S_listTool
             THEN Issue("tool_statuses", "/property_statuses", <<>>)
             ELSE Finish(ToolErrorResponse(Thrown(S_unknownTool \o name, FALSE)))
    /\ sanitizeLog' = <<>>
    /\ reply' = [kind |-> "none"]
    /\ UNCHANGED <<env, proc, apiKey, pureVars>>

\* ReadResourceRequestSchema handler, up to the fetch
ReadResource ==
    /\ "resources/read" \in proc.handlers
    /\ pc # "fetching"
    /\ \E uri \in Uris :
          /\ request' = [method |-> "resources/read", uri |-> uri]
          /\ LET b == ResourceBranch(uri)
             IN  IF b = "resource_all"
                 THEN Issue(b, "/units", SearchQuery([per |-> 500]))
                 ELSE IF b = "resource_active"
                 THEN Issue(b, "/units", SearchQuery([status |-> ActiveStatus, per |-> 500]))
                 ELSE IF b = "resource_single"
                 THEN Issue(b, "/units", GetQuery(Captured(uri, S_uriSingle)))
                 ELSE IF b = "resource_single_all"
                 THEN Issue(b, "/units", GetQuery(Captured(uri, S_uriSingleAll)))
                 ELSE Finish(ThrownResponse(Thrown(S_unknownResource \o uri, FALSE)))
    /\ sanitizeLog' = <<>>
    /\ reply' = [kind |-> "none"]
    /\ UNCHANGED <<env, proc, apiKey, pureVars>>

\* params of the prompt: { per: 500 }, and status when status_filter is truthy
PromptParams(args) ==
    IF "status_filter" \in DOMAIN args /\ args["status_filter"] # <<>>
    THEN [per |-> 500, status |-> args["status_filter"]]
    ELSE [per |-> 500]

\* GetPromptRequestSchema handler, up to the fetch
GetPrompt ==
    /\ "prompts/get" \in proc.handlers
    /\ pc # "fetching"
    /\ \E name \in PromptNames : \E args \in PromptArguments :
          /\ request' = [method |-> "prompts/get", name |-> name, arguments |-> args]
          /\ IF name = S_overviewPrompt
             THEN Issue("prompt_overview", "/units", SearchQuery(PromptParams(args)))
             ELSE Finish(ThrownResponse(Thrown(S_unknownPrompt \o name, FALSE)))
    /\ sanitizeLog' = <<>>
    /\ reply' = [kind |-> "none"]
    /\ UNCHANGED <<env, proc, apiKey, pureVars>>

\* ListTools, ListResources and ListPrompts handlers: fixed lists
ListHandler(method, names) ==
    /\ method \in proc.handlers
    /\ pc # "fetching"
    /\ request' = [method |-> method]
    /\ Finish(ResultResponse(names))
    /\ sanitizeLog' = <<>>
    /\ reply' = [kind |-> "none"]
    /\ UNCHANGED <<env, proc, apiKey, pureVars>>

ListTools == ListHandler("tools/list", <<S_searchTool, S_getTool, S_listTool>>)

ListResources ==
    ListHandler("resources/list",
                <<S_uriAll, S_uriActive, S_uriSingle \o <<"{","u","n","i","t","_","i","d","}">>,
                  S_uriSingleAll \o <<"{","u","n","i","t","_","i","d","}">> >>)

ListPrompts == ListHandler("prompts/list", <<S_overviewPrompt>>)

\* the unit id the awaiting branch passed to getProperty
RequestedUnitId ==
    IF branch = "tool_get" THEN request.arguments.unit_id
    ELSE IF branch = "resource_single" THEN Captured(request.uri, S_uriSingle)
    ELSE IF branch = "resource_single_all" THEN Captured(request.uri, S_uriSingleAll)
    ELSE <<>>

\* the fetch settles and the handler runs to its end
FetchCompletes ==
    /\ pc = "fetching"
    /\ \E r \in RepliesFor(fetchLog[1].path) :
          /\ reply' = r
          /\ awaited' = ClientResult(branch, RequestOutcome(r), RequestedUnitId)
          /\ LET got == ClientResult(branch, RequestOutcome(r), RequestedUnitId)
             IN  IF got.ok
                 THEN /\ response' = ResultResponse(BranchResult(branch, got.value).payload)
                      /\ sanitizeLog' = BranchResult(branch, got.value).calls
                 ELSE /\ response' = IF branch \in ToolBranches
                                     THEN ToolErrorResponse(got)
                                     ELSE ThrownResponse(got)
                      /\ sanitizeLog' = <<>>
    /\ pc' = "done"
    /\ UNCHANGED <<env, proc, apiKey, request, branch, fetchLog, pureVars>>

Next ==
    \/ CallTool
    \/ ReadResource
    \/ GetPrompt
    \/ ListTools
    \/ ListResources
    \/ ListPrompts
    \/ FetchCompletes

Spec == Init /\ [][Next]_vars

(***************************************************************************)
(* The process from its start: index.ts reads the key from the             *)
(* environment, exits without it, builds the client and registers the      *)
(* handlers.  The constructor is also called on its own.                   *)
(***************************************************************************)
EnvValues == {JUndefined, JStr(""), JStr("test-key-12345"), JStr("other-key-67890")}

Configs == {<<>>, [apiKey |-> JStr("")], [apiKey |-> JStr("test-key-12345")]}

InitStartup ==
    /\ env \in EnvValues
    /\ proc = Starting
    /\ apiKey = ""
    /\ pc = "idle"
    /\ request = [method |-> "none"]
    /\ branch = "none"
    /\ fetchLog = <<>>
    /\ sanitizeLog = <<>>
    /\ reply = [kind |-> "none"]
    /\ awaited = NotAwaited
    /\ response = NoResponse
    /\ spArg = <<>> /\ spRet = <<>>
    /\ seArg = <<>> /\ seRet = <<>>
    /\ nsArg = <<>> /\ nsRet = <<>>
    /\ sqArg = <<>> /\ sqRet = <<>>
    /\ ctorArg = <<>> /\ ctorRet = <<>>
    /\ applied = FALSE

\* index.ts at module load
Startup ==
    /\ proc.state = "starting"
    /\ IF EnvKeyMissing(env)
       THEN proc' = Exited(S_envRequired) /\ UNCHANGED apiKey
       ELSE LET propstack == PropStackClient([apiKey |-> env])
            IN  IF propstack.ok
                THEN proc' = Running /\ apiKey' = propstack.value.apiKey
                ELSE proc' = Exited(propstack.message) /\ UNCHANGED apiKey
    /\ UNCHANGED <<env, pc, request, branch, fetchLog, sanitizeLog, reply, awaited,
                   response, pureVars>>

CallConstructor ==
    /\ ~applied
    /\ \E config \in Configs :
          /\ ctorArg' = config
          /\ ctorRet' = PropStackClient(config)
    /\ applied' = TRUE
    /\ UNCHANGED <<serverVars, spArg, spRet, seArg, seRet, nsArg, nsRet, sqArg, sqRet>>

NextStartup == Startup \/ CallConstructor \/ Next

SpecStartup == InitStartup /\ [][NextStartup]_vars

(***************************************************************************)
(* Each function on its own: Init draws the input, the action applies it.  *)
(***************************************************************************)
InitSanitize ==
    /\ ServerIdle
    /\ spArg \in [property : PropertyInputs, removeMedia : BOOLEAN]
    /\ spRet = <<>>
    /\ seArg = <<>> /\ seRet = <<>>
    /\ nsArg = <<>> /\ nsRet = <<>>
    /\ sqArg = <<>> /\ sqRet = <<>>
    /\ ctorArg = <<>> /\ ctorRet = <<>>
    /\ applied = FALSE

CallSanitizeProperty ==
    /\ ~applied
    /\ spRet' = sanitizeProperty(spArg.property, spArg.removeMedia)
    /\ spArg' = [spArg EXCEPT
                    !.property = PropertyAfterCall(spArg.property, spArg.removeMedia)]
    /\ applied' = TRUE
    /\ UNCHANGED <<serverVars, ctorVars, seArg, seRet, nsArg, nsRet, sqArg, sqRet>>

SpecSanitize == InitSanitize /\ [][CallSanitizeProperty]_vars

InitError ==
    /\ ServerIdle
    /\ seArg \in ErrorMessages
    /\ seRet = <<>>
    /\ spArg = <<>> /\ spRet = <<>>
    /\ nsArg = <<>> /\ nsRet = <<>>
    /\ sqArg = <<>> /\ sqRet = <<>>
    /\ ctorArg = <<>> /\ ctorRet = <<>>
    /\ applied = FALSE

CallSanitizeError ==
    /\ ~applied
    /\ seRet' = sanitizeError(seArg)
    /\ applied' = TRUE
    /\ UNCHANGED <<serverVars, ctorVars, spArg, spRet, seArg, nsArg, nsRet, sqArg, sqRet>>

SpecError == InitError /\ [][CallSanitizeError]_vars

InitStatus ==
    /\ ServerIdle
    /\ nsArg \in StatusInputs
    /\ nsRet = <<>>
    /\ spArg = <<>> /\ spRet = <<>>
    /\ seArg = <<>> /\ seRet = <<>>
    /\ sqArg = <<>> /\ sqRet = <<>>
    /\ ctorArg = <<>> /\ ctorRet = <<>>
    /\ applied = FALSE

CallNormalizeStatusParam ==
    /\ ~applied
    /\ nsRet' = normalizeStatusParam(nsArg)
    /\ applied' = TRUE
    /\ UNCHANGED <<serverVars, ctorVars, spArg, spRet, seArg, seRet, nsArg, sqArg, sqRet>>

SpecStatus == InitStatus /\ [][CallNormalizeStatusParam]_vars

InitQuery ==
    /\ ServerIdle
    /\ sqArg \in SearchInputs
    /\ sqRet = <<>>
    /\ spArg = <<>> /\ spRet = <<>>
    /\ seArg = <<>> /\ seRet = <<>>
    /\ nsArg = <<>> /\ nsRet = <<>>
    /\ ctorArg = <<>> /\ ctorRet = <<>>
    /\ applied = FALSE

CallSearchQuery ==
    /\ ~applied
    /\ sqRet' = SearchQuery(sqArg)
    /\ applied' = TRUE
    /\ UNCHANGED <<serverVars, ctorVars, spArg, spRet, seArg, seRet, nsArg, nsRet, sqArg>>

SpecQuery == InitQuery /\ [][CallSearchQuery]_vars

(***************************************************************************)
(* Claims about sanitizeProperty (SpecSanitize).                           *)
(***************************************************************************)
\* a numeric coordinate comes out as the nearest multiple of 0.001 degree
RoundedToThreeDecimals(rec, res) ==
    \A f \in {"lat", "lng"} :
        (f \in DOMAIN rec /\ rec[f].type = "number") =>
            /\ f \in DOMAIN res
            /\ res[f].type = "number"
            /\ res[f].val % 10 = 0
            /\ res[f].val - rec[f].val \in -4..5

\* C1 as stated: for every record and both values of removeMedia, numeric
\* lat/lng come out rounded to 3 decimal places, the five broker/contact
\* fields are absent, and the media fields are absent from the output if and
\* only if removeMedia was true.
C1_MediaAbsentIffRemoveMedia ==
    applied =>
        /\ RoundedToThreeDecimals(spArg.property, spRet)
        /\ BrokerFields \cap DOMAIN spRet = {}
        /\ (MediaFields \cap DOMAIN spRet = {}) <=> spArg.removeMedia

\* C1 as amended: numeric lat/lng come out rounded to 3 decimal places, the
\* five broker/contact fields are absent, and a media field is in the output
\* exactly when the input record had it and removeMedia was false.
C1_SanitizeProperty ==
    applied =>
        /\ RoundedToThreeDecimals(spArg.property, spRet)
        /\ BrokerFields \cap DOMAIN spRet = {}
        /\ \A m \in MediaFields :
              m \in DOMAIN spRet <=>
                  (m \in DOMAIN spArg.property /\ ~spArg.removeMedia)

\* a record with an unrounded coordinate, broker data and media has been
\* sanitized with media kept
C1_Witness ==
    /\ applied
    /\ ~spArg.removeMedia
    /\ "lat" \in DOMAIN spArg.property
    /\ spArg.property["lat"] = JNum(5)
    /\ spRet["lat"] = JNum(10)
    /\ BrokerFields \subseteq DOMAIN spArg.property
    /\ MediaFields \cap DOMAIN spRet = {"images", "videos"}

(***************************************************************************)
(* Claims about sanitizeError (SpecError).                                 *)
(***************************************************************************)
S_keyEq == <<"k","e","y","=">>

S_tokenEq == <<"t","o","k","e","n","=">>

S_bearerSp == <<"b","e","a","r","e","r"," ">>

CredentialShapes ==
    { [prefix |-> S_keyEq, redacted |-> S_keyRedacted],
      [prefix |-> S_tokenEq, redacted |-> S_tokenRedacted],
      [prefix |-> S_bearerSp, redacted |-> S_bearerRedacted] }

\* the run of non-blank characters of s that starts at index i
SecretAt(s, i) == SubSeq(s, i, SkipUntil(s, i, Whitespace) - 1)

\* s has the credential `prefix<secret>` at index i
CredentialAt(s, i, prefix) ==
    /\ i + Len(prefix) - 1 <= Len(s)
    /\ SubSeq(s, i, i + Len(prefix) - 1) = prefix
    /\ SecretAt(s, i + Len(prefix)) # <<>>

Occurrences(s, sub) ==
    Cardinality({i \in 1..(Len(s) - Len(sub) + 1) : SubSeq(s, i, i + Len(sub) - 1) = sub})

\* C5, its promise about the secret: for every error message containing
\* key=<secret>, token=<secret> or bearer <secret>, in any combination and
\* order, the sanitized message never contains the secret (a secret the
\* message also shows outside the credential is not counted).
C5_SecretNeverInOutput ==
    applied =>
        \A c \in CredentialShapes : \A i \in 1..Len(seArg) :
            CredentialAt(seArg, i, c.prefix) =>
                LET secret == SecretAt(seArg, i + Len(c.prefix))
                IN  Occurrences(seArg, secret) = 1 => ~Contains(seRet, secret)

(***************************************************************************)
(* Claims about normalizeStatusParam (SpecStatus).                         *)
(***************************************************************************)
\* the catalog as the specification gives it
CatalogIds ==
    (S_akquise :> <<"1","3","3","8","7","8">>) @@
    (S_vorbereitung :> <<"1","3","3","8","7","9">>) @@
    (S_vermarktung :> <<"1","3","3","8","8","0">>) @@
    (S_reserviert :> <<"1","3","3","8","8","1">>) @@
    (S_abgeschlossen :> <<"1","3","3","8","8","2">>)

Tokens(s) == split(s, ",")

Cleaned(token) == toLowerCase(trim(token))

S_VermarktungReserviert ==
    <<"V","e","r","m","a","r","k","t","u","n","g",","," ","r","e","s","e","r","v","i","e","r","t">>

S_133880_133881 == <<"1","3","3","8","8","0",",","1","3","3","8","8","1">>

S_akquise_133881 == <<"a","k","q","u","i","s","e",",","1","3","3","8","8","1">>

S_133878_133881 == <<"1","3","3","8","7","8",",","1","3","3","8","8","1">>

\* C6: when every token of the input is, trimmed and with letter case
\* ignored, a catalog name or a string of digits, the result is the
\* comma-joined list with as many tokens in the same order, each name replaced
\* by its ID and each digit string unchanged; "Vermarktung, reserviert" gives
\* "133880,133881" and "akquise,133881" gives "133878,133881".
C6_NormalizeKnownTokens ==
    applied =>
        LET ts == Tokens(nsArg)
            out == Tokens(nsRet)
        IN  /\ (\A i \in 1..Len(ts) :
                    Cleaned(ts[i]) \in DOMAIN CatalogIds \/ IsNumeric(Cleaned(ts[i])))
                => /\ Len(out) = Len(ts)
                   /\ \A i \in 1..Len(ts) :
                        out[i] = IF IsNumeric(Cleaned(ts[i])) THEN Cleaned(ts[i])
                                 ELSE CatalogIds[Cleaned(ts[i])]
            /\ nsArg = S_VermarktungReserviert => nsRet = S_133880_133881
            /\ nsArg = S_akquise_133881 => nsRet = S_133878_133881

\* the specification's first example has been normalized
C6_Witness ==
    /\ applied
    /\ nsArg = S_VermarktungReserviert
    /\ nsRet = S_133880_133881

\* C7, on tokens written the way the function normalizes them (lower case,
\* no surrounding blanks): every token that is neither a string of digits
\* nor a catalog name appears in the output at the same position exactly as
\* it was written in the input.
C7_UnknownTokensUnchanged ==
    applied =>
        LET ts == Tokens(nsArg)
            out == Tokens(nsRet)
        IN  (\A i \in 1..Len(ts) : Cleaned(ts[i]) = ts[i]) =>
                \A i \in 1..Len(ts) :
                    (~IsNumeric(ts[i]) /\ ts[i] \notin DOMAIN CatalogIds) =>
                        (i <= Len(out) /\ out[i] = ts[i])

(***************************************************************************)
(* Claims about the query searchProperties builds (SpecQuery).             *)
(***************************************************************************)
\* out is s with the characters of D deleted and nothing else changed
DeletedOnly(s, out, D) ==
    LET keep == {i \in 1..Len(s) : s[i] \notin D}
    IN  /\ Len(out) = Cardinality(keep)
        /\ \A k \in 1..Len(out) :
              out[k] = s[CHOOSE i \in keep : Cardinality({j \in keep : j <= i}) = k]

\* C8: the output of sanitizeSearchQuery is the input with every ; < > ' "
\* removed and nothing else changed, and the property_type value that
\* searchProperties puts in the upstream query is exactly this output.
C8_PropertyTypeSanitized ==
    (applied /\ "property_type" \in DOMAIN sqArg) =>
        LET t == sqArg["property_type"]
        IN  /\ DeletedOnly(t, sanitizeSearchQuery(t), {";", "<", ">", "'", "\""})
            /\ "property_type" \in DOMAIN sqRet =>
                  /\ sqRet["property_type"] = sanitizeSearchQuery(t)
                  /\ DeletedOnly(t, sqRet["property_type"], {";", "<", ">", "'", "\""})
            /\ "property_type" \in DOMAIN sqRet <=> t # <<>>

\* a property type with dangerous and harmless characters went into a query
C8_Witness ==
    /\ applied
    /\ "property_type" \in DOMAIN sqArg
    /\ sqArg["property_type"] = <<"A", ";", "-">>
    /\ sqRet["property_type"] = <<"A", "-">>

\* C10: the query always has per (500 when the caller gave none) and
\* with_meta=1, never has expand, and has each of price_from, price_to,
\* plot_area, property_type, status and page only when the caller supplied it.
C10_SearchQueryShape ==
    applied =>
        /\ "per" \in DOMAIN sqRet
        /\ "per" \notin DOMAIN sqArg => sqRet["per"] = <<"5", "0", "0">>
        /\ "with_meta" \in DOMAIN sqRet /\ sqRet["with_meta"] = <<"1">>
        /\ "expand" \notin DOMAIN sqRet
        /\ \A n \in {"price_from", "price_to", "plot_area", "property_type",
                     "status", "page"} :
              n \in DOMAIN sqRet => n \in DOMAIN sqArg

\* a search with two filters and no per has been turned into a query
C10_Witness ==
    /\ applied
    /\ DOMAIN sqArg = {"price_from", "status"}
    /\ DOMAIN sqRet = {"per", "with_meta", "price_from", "status"}
    /\ sqRet["per"] = <<"5", "0", "0">>

(***************************************************************************)
(* Claims about the handlers (Spec).                                       *)
(***************************************************************************)
\* the awaited fetch came back with a list of records, enveloped or bare
ReplyHasUnits ==
    /\ reply.kind = "ok"
    /\ HasDataArray(reply.body) \/ reply.body.type = "array"

ReplyUnits ==
    IF ~ReplyHasUnits THEN <<>>
    ELSE IF reply.body.type = "array" THEN reply.body.val
    ELSE reply.body.val["data"].val

\* the request is a read of prefix<something>
ReadsUnder(prefix) ==
    /\ request.method = "resources/read"
    /\ Len(request.uri) > Len(prefix)
    /\ SubSeq(request.uri, 1, Len(prefix)) = prefix

CallsTool(name) == request.method = "tools/call" /\ request.name = name

ReadsUri(uri) == request.method = "resources/read" /\ request.uri = uri

GetsOverviewPrompt == request.method = "prompts/get" /\ request.name = S_overviewPrompt

Succeeded == pc = "done" /\ response.kind = "result"

Failed == pc = "done" /\ response.kind \in {"toolError", "thrown"}

\* the request is one of the seven that answer with property records
CarriesRecords ==
    \/ CallsTool(S_searchTool) \/ CallsTool(S_getTool)
    \/ ReadsUri(S_uriAll) \/ ReadsUri(S_uriActive)
    \/ ReadsUnder(S_uriSingle) \/ ReadsUnder(S_uriSingleAll)
    \/ GetsOverviewPrompt

ReturnsOverview == CallsTool(S_searchTool) \/ ReadsUri(S_uriAll) \/ ReadsUri(S_uriActive)

\* the property records of a successful response
ResponseRecords ==
    IF ReturnsOverview THEN response.payload.properties
    ELSE IF GetsOverviewPrompt THEN response.payload.units
    ELSE <<response.payload>>

\* the upstream records a successful response is built from
SourceRecords ==
    IF ReturnsOverview \/ GetsOverviewPrompt THEN ReplyUnits ELSE <<ReplyUnits[1]>>

\* record i of the response is what sanitizeProperty made of upstream record i
ThroughSanitizeProperty ==
    /\ Len(sanitizeLog) = Len(ResponseRecords)
    /\ \A i \in 1..Len(ResponseRecords) :
          /\ sanitizeLog[i].property = SourceRecords[i]
          /\ RoundedToThreeDecimals(SourceRecords[i], ResponseRecords[i])
          /\ BrokerFields \cap DOMAIN ResponseRecords[i] = {}

ToolOverviewFields ==
    {"id", "unit_id", "name", "title", "city", "street", "house_number", "status",
     "status_id", "price", "living_space", "rooms"}

C3_RemoveMediaByPath ==
    /\ \A i \in 1..Len(sanitizeLog) :
          sanitizeLog[i].removeMedia <=> (ReadsUnder(S_uriSingle) \/ GetsOverviewPrompt)
    /\ (Succeeded /\ ReadsUnder(S_uriSingle)) =>
          /\ Len(sanitizeLog) = 1
          /\ MediaFields \cap DOMAIN response.payload = {}
    /\ (Succeeded /\ (CallsTool(S_getTool) \/ ReadsUnder(S_uriSingleAll))) =>
          /\ Len(sanitizeLog) = 1
          /\ \A m \in MediaFields \cap DOMAIN ReplyUnits[1] :
                /\ m \in DOMAIN response.payload
                /\ response.payload[m] = ReplyUnits[1][m]

\* a record with all four media fields was read through single/{id}
C3_Witness ==
    /\ Succeeded
    /\ ReadsUnder(S_uriSingle)
    /\ ReplyUnits[1] = DetailUnit
    /\ sanitizeLog = <<Call(DetailUnit, TRUE)>>
    /\ "city" \in DOMAIN response.payload

\* the message the caller sees
SurfacedMessage == IF response.kind = "toolError" THEN response.text ELSE response.message

\* m shows a credential whose secret is not the redaction mark
ShowsCredential(m) ==
    \E c \in CredentialShapes : \E i \in 1..Len(m) :
        /\ CredentialAt(m, i, c.prefix)
        /\ SecretAt(m, i + Len(c.prefix)) # <<"*", "*", "*">>

\* C4, its promise about the surfaced message: no error surfaced to the
\* caller, whatever its origin (network failure, non-2xx reply, not-found,
\* unexpected format, unknown tool, resource or prompt), contains an
\* unredacted credential-shaped substring.
C4_NoCredentialInSurfacedError ==
    Failed => ~ShowsCredential(SurfacedMessage)

\* C9: when the reply to getProperty (enveloped or bare) has zero matches the
\* call fails with 'Property with unit_id <id> not found' for the id asked
\* for; when it has matches the first one is returned; the call never
\* succeeds with an empty or missing record.
C9_GetPropertyNotFound ==
    (pc = "done" /\ branch \in GetBranches) =>
        /\ (ReplyHasUnits /\ Len(ReplyUnits) = 0) =>
              /\ Failed
              /\ response.message = S_propertyWithUnitId \o RequestedUnitId \o S_notFound
        /\ (ReplyHasUnits /\ Len(ReplyUnits) > 0) =>
              /\ Succeeded
              /\ sanitizeLog[1].property = ReplyUnits[1]
        /\ Succeeded =>
              /\ ReplyHasUnits /\ Len(ReplyUnits) > 0
              /\ sanitizeLog[1].property \in UpstreamUnits

\* a lookup came back with an empty envelope and failed naming the id
C9_Witness ==
    /\ Failed
    /\ CallsTool(S_getTool)
    /\ reply = OkReply(JObj([data |-> JArr(<<>>)]))
    /\ response.text =
          S_errorPrefix \o S_propertyWithUnitId \o <<"1", "0", "0">> \o S_notFound

(***************************************************************************)
(* Claims about the client's calls as the handlers make them (Spec).       *)
(***************************************************************************)
\* a handler's searchProperties call got a parsed body back from the fetch
SearchReplied == pc = "done" /\ branch \in SearchBranches /\ reply.kind = "ok"

\* the body is an object whose data is an array (with or without meta)
IsEnvelope(body) ==
    body.type = "object" /\ "data" \in DOMAIN body.val /\ body.val["data"].type = "array"

\* C11 as stated: a reply {data: [...], meta} yields units = data; a bare
\* array yields units = the array and total = its length; a reply of any
\* other shape fails with 'Unexpected API response format' and yields no
\* result.
C11_SearchResponseParsing ==
    SearchReplied =>
        IF IsEnvelope(reply.body)
        THEN awaited.ok /\ awaited.value.units = reply.body.val["data"].val
        ELSE IF reply.body.type = "array"
        THEN /\ awaited.ok
             /\ awaited.value.units = reply.body.val
             /\ awaited.value.total = Len(reply.body.val)
        ELSE /\ ~awaited.ok
             /\ awaited.message = S_unexpectedFormat
             /\ response.kind # "result"

\* the envelope gives a total_count
ProvidesTotalCount(body) ==
    /\ "meta" \in DOMAIN body.val
    /\ body.val["meta"].type = "object"
    /\ "total_count" \in DOMAIN body.val["meta"].val
    /\ body.val["meta"].val["total_count"].type = "number"

\* C12 as stated: for an enveloped reply, total is the provided
\* meta.total_count, and the number of units when none is provided; an empty
\* data array gives units = [] with total 0 or the provided total_count.
C12_SearchTotal ==
    (SearchReplied /\ IsEnvelope(reply.body)) =>
        LET data == reply.body.val["data"].val
        IN  /\ awaited.ok
            /\ awaited.value.total =
                  IF ProvidesTotalCount(reply.body)
                  THEN reply.body.val["meta"].val["total_count"].val
                  ELSE Len(data)
            /\ data = <<>> => awaited.value.units = <<>>

(***************************************************************************)
(* Claims about how handlers surface errors (Spec).                        *)
(***************************************************************************)
\* the handler of the request ran to its end and something in it threw: the
\* client call it awaited, or the handler itself, which in a tool, resource
\* or prompt handler is the only way to end without a client call
SomethingThrew ==
    /\ pc = "done"
    /\ request.method \in {"tools/call", "resources/read", "prompts/get"}
    /\ branch = "none" \/ ~awaited.ok

\* the message of what was thrown
ThrownMessage ==
    IF branch # "none" THEN awaited.message
    ELSE IF request.method = "resources/read" THEN S_unknownResource \o request.uri
    ELSE IF request.method = "prompts/get" THEN S_unknownPrompt \o request.name
    ELSE IF request.name = S_getTool THEN S_cannotDestructure
    ELSE S_unknownTool \o request.name

\* C13: a tool call in which anything throws (the client, or an unknown
\* tool) returns a payload with isError = true and the text
\* 'Error: <message>' and never throws; a resource read or prompt request in
\* which anything throws ends with the error thrown out of the handler and
\* no content payload.
C13_ToolErrorsValuesOthersThrown ==
    /\ (pc = "done" /\ request.method = "tools/call") => response.kind # "thrown"
    /\ SomethingThrew =>
          IF request.method = "tools/call"
          THEN /\ response.kind = "toolError"
               /\ response.isError = TRUE
               /\ response.text = S_errorPrefix \o ThrownMessage
          ELSE /\ response.kind = "thrown"
               /\ response.message = ThrownMessage
               /\ "payload" \notin DOMAIN response
               /\ "text" \notin DOMAIN response

\* a tool call whose upstream request was answered 404 returned an error payload
C13_Witness ==
    /\ SomethingThrew
    /\ CallsTool(S_listTool)
    /\ reply.kind = "http" /\ reply.status = 404
    /\ response.isError = TRUE
    /\ response.text = S_errorPrefix \o S_apiError \o <<"4", "0", "4", " ">> \o S_NotFound

(***************************************************************************)
(* Claims about PropStackClient.request as the handlers use it (Spec).     *)
(***************************************************************************)
\* the fetch of the handled request was answered with a non-2xx status
HttpFailed == pc = "done" /\ branch # "none" /\ reply.kind = "http"

\* 'PropStack API error: <status> <statusText>' for the reply
ApiErrorMessage ==
    S_apiError \o NumberToString(reply.status) \o <<" ">> \o reply.statusText

\* the text has, in any letter case, one of key= key: token= token: or
\* bearer followed by a blank
HasCredentialKeyword(text) ==
    LET low == toLowerCase(text)
    IN  \E k \in { <<"k","e","y","=">>, <<"k","e","y",":">>,
                   <<"t","o","k","e","n","=">>, <<"t","o","k","e","n",":">>,
                   <<"b","e","a","r","e","r"," ">>, <<"b","e","a","r","e","r","\t">> } :
            Occurrences(low, k) > 0

EnvHasKey == env.type = "string" /\ env.val # ""

\* C15: every outbound request ever issued, over any sequence of tool,
\* resource and prompt requests, is a GET without body to
\* https://api.propstack.de/v1 at /units or /property_statuses, with the
\* header X-API-KEY equal to the configured API key and Content-Type
\* application/json.
C15_EveryRequestIsAuthenticatedRead ==
    \A i \in 1..Len(fetchLog) :
        LET call == fetchLog[i]
        IN  /\ call.method = "GET"
            /\ call.body = "none"
            /\ call.base =
                  <<"h","t","t","p","s",":","/","/","a","p","i",".","p","r","o","p","s","t",
                    "a","c","k",".","d","e","/","v","1">>
            /\ call.path \in {"/units", "/property_statuses"}
            /\ EnvHasKey
            /\ "X-API-KEY" \in DOMAIN call.headers
            /\ call.headers["X-API-KEY"] = env.val
            /\ "Content-Type" \in DOMAIN call.headers
            /\ call.headers["Content-Type"] = "application/json"

\* a status listing is on its way upstream with the second key
C15_Witness ==
    /\ pc = "fetching"
    /\ CallsTool(S_listTool)
    /\ env = JStr("other-key-67890")
    /\ Len(fetchLog) = 1
    /\ fetchLog[1].path = "/property_statuses"
    /\ fetchLog[1].headers["X-API-KEY"] = "other-key-67890"

\* C16: no request is ever served without an API key: the constructor called
\* with an empty or missing apiKey fails with 'PropStack API key is
\* required', and with PROPSTACK_API_KEY absent the process exits with a
\* diagnostic before the client is built, a handler is registered or an
\* upstream request is made.
C16_NoRequestWithoutApiKey ==
    /\ applied =>
          IF "apiKey" \in DOMAIN ctorArg /\ ctorArg["apiKey"] \notin {JStr(""), JUndefined, JNull}
          THEN ctorRet.ok /\ ctorRet.value.apiKey = ctorArg["apiKey"].val
          ELSE ~ctorRet.ok /\ ctorRet.message = "PropStack API key is required"
    /\ (~EnvHasKey /\ proc.state # "starting") =>
          /\ proc.state = "exited"
          /\ proc.code # 0
          /\ proc.stderr = "Error: PROPSTACK_API_KEY environment variable is required"
    /\ ~EnvHasKey =>
          /\ apiKey = ""
          /\ proc.handlers = {}
          /\ fetchLog = <<>>
          /\ request = [method |-> "none"] /\ pc = "idle" /\ response = NoResponse
    /\ (request # [method |-> "none"] \/ fetchLog # <<>>) =>
          /\ EnvHasKey
          /\ proc.state = "running"
          /\ apiKey = env.val

\* without the environment value the process has exited, and the
\* constructor has refused an empty key
C16_Witness ==
    /\ env = JUndefined
    /\ proc.state = "exited"
    /\ applied
    /\ ctorArg = [apiKey |-> JStr("")]
    /\ ~ctorRet.ok

(***************************************************************************)
(* Claims about the overview the search tool and the resources return, and *)
(* about the prompt (Spec).                                                *)
(***************************************************************************)
ReadsOverviewResource == ReadsUri(S_uriAll) \/ ReadsUri(S_uriActive)

ResourceOverviewFields == {"id", "unit_id", "name", "city", "street", "status"}

\* the entry the search tool returns for an upstream unit
ToolEntry(unit) == JsonObject(ToolOverview(unit))

\* C17 as stated: properties/all and properties/active return, for each
\* unit, a record with the same set of fields as the search tool returns for
\* that unit.
C17_ResourcesSameShapeAsTool ==
    (Succeeded /\ ReadsOverviewResource) =>
        /\ Len(response.payload.properties) = Len(ReplyUnits)
        /\ \A i \in 1..Len(ReplyUnits) :
              DOMAIN response.payload.properties[i] = DOMAIN ToolEntry(ReplyUnits[i])

\* C17 as amended: properties/all and properties/active return, for each
\* unit, the search tool's entry for that unit cut down to id, unit_id, name,
\* city, street and status; the tool's title, house_number, status_id,
\* price, living_space and rooms are never in it, so the two shapes differ.
C17_ResourcesReturnSixFields ==
    (Succeeded /\ ReadsOverviewResource) =>
        /\ Len(response.payload.properties) = Len(ReplyUnits)
        /\ DOMAIN response.payload = {"properties", "total"}
        /\ \A i \in 1..Len(ReplyUnits) :
              LET rec == response.payload.properties[i]
                  entry == ToolEntry(ReplyUnits[i])
              IN  /\ DOMAIN rec = DOMAIN entry \cap ResourceOverviewFields
                  /\ \A f \in DOMAIN rec : rec[f] = entry[f]
                  /\ DOMAIN rec # DOMAIN entry
                  /\ "status" \in DOMAIN rec

\* properties/active answered with the six-field record of a summary unit
C17_Witness ==
    /\ Succeeded
    /\ ReadsUri(S_uriActive)
    /\ ReplyUnits = <<SummaryUnit>>
    /\ DOMAIN response.payload.properties[1] = ResourceOverviewFields
    /\ response.payload.properties[1]["status"] = JStr("Vermarktung")

\* C18: a read of properties/active issues its search with the status filter
\* exactly 133880,133881, and a read of properties/all issues its search
\* with no status filter.
C18_ActiveFilterAllNone ==
    /\ ReadsUri(S_uriActive) =>
          /\ Len(fetchLog) = 1
          /\ fetchLog[1].path = "/units"
          /\ "status" \in DOMAIN fetchLog[1].query
          /\ fetchLog[1].query["status"] =
                <<"1","3","3","8","8","0",",","1","3","3","8","8","1">>
    /\ ReadsUri(S_uriAll) =>
          /\ Len(fetchLog) = 1
          /\ fetchLog[1].path = "/units"
          /\ "status" \notin DOMAIN fetchLog[1].query

\* the search of properties/active is on its way upstream
C18_Witness ==
    /\ pc = "fetching"
    /\ ReadsUri(S_uriActive)
    /\ fetchLog[1].query["status"] = S_133880_133881
    /\ fetchLog[1].query["per"] = <<"5", "0", "0">>

ToolEntryFields ==
    {"id", "unit_id", "name", "title", "city", "street", "house_number", "status",
     "status_id", "price", "living_space", "rooms"}

\* the upstream field an entry field is read from
UpstreamField(f) == IF f = "rooms" THEN "number_of_rooms" ELSE f

\* the status object the entry is built from: unit.status when present,
\* unit.property_status otherwise
StatusOf(unit) ==
    IF "status" \in DOMAIN unit /\ unit["status"].type = "object" THEN unit["status"]
    ELSE IF "property_status" \in DOMAIN unit THEN unit["property_status"]
    ELSE JUndefined

\* the scalar of a field that is bare or wrapped in {label, value}; null when
\* the field is null or missing
Unwrapped(unit, f) ==
    IF f \notin DOMAIN unit \/ unit[f].type = "null" THEN JNull
    ELSE IF unit[f].type = "object" /\ "value" \in DOMAIN unit[f].val
         THEN unit[f].val["value"]
    ELSE unit[f]

\* the status name and the unwrapped fields of an entry are as C19 has them
StatusAndScalars(unit, rec) ==
    /\ "status" \in DOMAIN rec
    /\ rec["status"] =
          IF StatusOf(unit).type = "object" /\ "name" \in DOMAIN StatusOf(unit).val
          THEN StatusOf(unit).val["name"]
          ELSE JStr("Unknown")
    /\ \A f \in {"title", "price", "living_space", "rooms"} :
          f \in DOMAIN rec /\ rec[f] = Unwrapped(unit, UpstreamField(f))

\* C19 as stated: every entry of a search result has exactly the twelve
\* fields; status name and id come from unit.status when present and from
\* unit.property_status otherwise ('Unknown' when neither exists); title,
\* price, living_space and rooms are the unwrapped scalar, null when the
\* field was null or missing.
C19_EntryHasExactlyTwelveFields ==
    (Succeeded /\ CallsTool(S_searchTool)) =>
        /\ Len(response.payload.properties) = Len(ReplyUnits)
        /\ \A i \in 1..Len(ReplyUnits) :
              /\ DOMAIN response.payload.properties[i] = ToolEntryFields
              /\ StatusAndScalars(ReplyUnits[i], response.payload.properties[i])

\* C19 as amended: every entry of a search result has title, status, price,
\* living_space and rooms, and has each of id, unit_id, name, city, street
\* and house_number exactly when the upstream unit has it, and status_id
\* exactly when the status object has an id; no other field; the values are
\* as C19 states them.
C19_EntryHasUpToTwelveFields ==
    (Succeeded /\ CallsTool(S_searchTool)) =>
        /\ Len(response.payload.properties) = Len(ReplyUnits)
        /\ response.payload.count = Len(ReplyUnits)
        /\ \A i \in 1..Len(ReplyUnits) :
              LET unit == ReplyUnits[i]
                  rec == response.payload.properties[i]
              IN  /\ DOMAIN rec \subseteq ToolEntryFields
                  /\ StatusAndScalars(unit, rec)
                  /\ \A f \in {"id", "unit_id", "name", "city", "street", "house_number"} :
                        /\ f \in DOMAIN rec <=> f \in DOMAIN unit
                        /\ f \in DOMAIN rec => rec[f] = unit[f]
                  /\ "status_id" \in DOMAIN rec <=>
                        (StatusOf(unit).type = "object" /\ "id" \in DOMAIN StatusOf(unit).val)
                  /\ "status_id" \in DOMAIN rec => rec["status_id"] = StatusOf(unit).val["id"]

\* a search answered with a unit that has both status objects and a wrapped
\* price, followed by a unit with hardly any field
C19_Witness ==
    /\ Succeeded
    /\ CallsTool(S_searchTool)
    /\ ReplyUnits = <<SummaryUnit, BareUnit>>
    /\ response.payload.properties[1]["status_id"] = JNum(133880)
    /\ response.payload.properties[1]["price"] = JNum(450000)
    /\ "status_id" \notin DOMAIN response.payload.properties[2]

\* the prompt request carries a status_filter that is not empty
StatusFilterGiven ==
    /\ "status_filter" \in DOMAIN request.arguments
    /\ request.arguments["status_filter"] # <<>>

\* unit went through sanitizeProperty with media removed and came out as rec
SanitizedWithoutMedia(unit, rec) ==
    /\ DOMAIN rec = DOMAIN unit \ (BrokerFields \cup MediaFields)
    /\ RoundedToThreeDecimals(unit, rec)
    /\ \A f \in DOMAIN rec :
          (f \notin {"lat", "lng"} \/ unit[f].type # "number") => rec[f] = unit[f]

\* C20: the overview prompt issues one search, with the status filter only
\* when status_filter was given, passes every returned unit through
\* sanitizeProperty with media removed and embeds exactly those sanitized
\* units in upstream order; an unknown prompt name fails with
\* 'Unknown prompt: <name>' without any upstream request.
C20_OverviewPrompt ==
    /\ GetsOverviewPrompt =>
          /\ Len(fetchLog) = 1
          /\ fetchLog[1].path = "/units"
          /\ "status" \in DOMAIN fetchLog[1].query <=> StatusFilterGiven
    /\ (GetsOverviewPrompt /\ Succeeded) =>
          /\ Len(sanitizeLog) = Len(ReplyUnits)
          /\ Len(response.payload.units) = Len(ReplyUnits)
          /\ \A i \in 1..Len(ReplyUnits) :
                /\ sanitizeLog[i] = [property |-> ReplyUnits[i], removeMedia |-> TRUE]
                /\ SanitizedWithoutMedia(ReplyUnits[i], response.payload.units[i])
    /\ (request.method = "prompts/get" /\ request.name # S_overviewPrompt) =>
          /\ fetchLog = <<>>
          /\ pc = "done"
          /\ response.kind = "thrown"
          /\ response.message = S_unknownPrompt \o request.name

\* a filtered prompt request embedded two sanitized units in upstream order
C20_Witness ==
    /\ Succeeded
    /\ GetsOverviewPrompt
    /\ StatusFilterGiven
    /\ ReplyUnits = <<DetailUnit, SummaryUnit>>
    /\ response.payload.units[1]["lat"] = JNum(0 - 335550)
    /\ response.payload.units[2]["name"] = JStr("Haus am See")

(***************************************************************************)
(* Claims about the status catalog (Spec).                                 *)
(***************************************************************************)
\* the list-statuses tool ran to its end on an upstream envelope
ListedStatuses ==
    /\ pc = "done"
    /\ CallsTool(S_listTool)
    /\ reply.kind = "ok"
    /\ reply.body.type = "object"

\* C21: listStatuses returns the data list of the upstream envelope
\* unchanged, and the empty list when the envelope has no data field; the
\* propstack_list_statuses tool returns that catalog as it is, without a
\* call of sanitizeProperty.
C21_ListStatusesCatalog ==
    ListedStatuses =>
        LET envelope == reply.body.val
        IN  /\ ("data" \in DOMAIN envelope /\ envelope["data"].type = "array") =>
                    awaited = Returned(envelope["data"].val)
            /\ "data" \notin DOMAIN envelope => awaited = Returned(<<>>)
            /\ awaited.ok =>
                    /\ response = ResultResponse(awaited.value)
                    /\ sanitizeLog = <<>>

\* a catalog whose entry has a coordinate and a broker came back as it was
C21_Witness ==
    /\ ListedStatuses
    /\ Len(response.payload) = 1
    /\ response.payload[1]["lat"] = JNum(524375)
    /\ "broker" \in DOMAIN response.payload[1]
    /\ sanitizeLog = <<>>

(***************************************************************************)
(* Claims about the page size of a search (Spec).                          *)
(***************************************************************************)
\* the search tool has issued its request
SearchToolRequested ==
    /\ CallsTool(S_searchTool)
    /\ Len(fetchLog) = 1

\* the decimal digits of a whole number from 1 to 500
UpTo500 == {NumberToString(n) : n \in 1..500}

\* C22: the per value a search sends upstream is 500 when the caller gives
\* none, and never exceeds the documented maximum of 500, whatever per
\* value the caller supplies to propstack_search_properties.
C22_PerAtMost500 ==
    SearchToolRequested =>
        /\ "per" \notin DOMAIN request.arguments =>
                fetchLog[1].query["per"] = <<"5", "0", "0">>
        /\ fetchLog[1].query["per"] \in UpTo500

(***************************************************************************)
(* Claims about the validation of a property id (Spec).                    *)
(***************************************************************************)
S_invalidId ==
    <<"I","n","v","a","l","i","d"," ","p","r","o","p","e","r","t","y"," ","I","D"," ","f","o",
      "r","m","a","t">>

\* an id with a character that is neither a letter, a digit, '-' nor '_'
MalformedId(id) ==
    \E i \in 1..Len(id) :
        id[i] \notin (Digits \cup DOMAIN UpperToLower
                      \cup {UpperToLower[c] : c \in DOMAIN UpperToLower} \cup {"-", "_"})

\* the get tool was called with a malformed unit_id
GetsMalformedId ==
    /\ CallsTool(S_getTool)
    /\ "unit_id" \in DOMAIN request.arguments
    /\ MalformedId(request.arguments["unit_id"])

\* C23: a propstack_get_property call with a malformed property id (such as
\* "bad@id") is rejected with the error 'Invalid property ID format', and
\* no upstream request is made, the id being validated before the request.
C23_MalformedIdRejected ==
    GetsMalformedId =>
        /\ fetchLog = <<>>
        /\ pc = "done"
        /\ response.kind = "toolError"
        /\ response.message = S_invalidId

(***************************************************************************)
(* Claims about the requests a handler makes (Spec).                       *)
(***************************************************************************)
\* the request names a tool, resource or prompt that is not registered
UnregisteredName ==
    \/ /\ request.method = "tools/call"
       /\ request.name \notin {S_searchTool, S_getTool, S_listTool}
    \/ /\ request.method = "resources/read"
       /\ ~ReadsUri(S_uriAll) /\ ~ReadsUri(S_uriActive)
       /\ ~ReadsUnder(S_uriSingle) /\ ~ReadsUnder(S_uriSingleAll)
    \/ /\ request.method = "prompts/get"
       /\ request.name # S_overviewPrompt

ListsNames == request.method \in {"tools/list", "resources/list", "prompts/list"}

\* C24: handling a protocol request makes at most one outbound HTTP
\* request; the handler does not respond before that request has completed;
\* after the request has settled, failed or not, the handler responds
\* without issuing another (no retry); list-tools, list-resources,
\* list-prompts and a request for an unknown tool, resource or prompt make
\* none.
C24_AtMostOneRequestAwaited ==
    [][ /\ Len(fetchLog') <= 1
        /\ pc' = "fetching" => (Len(fetchLog') = 1 /\ response' = NoResponse)
        /\ (ListsNames' \/ UnregisteredName') => (fetchLog' = <<>> /\ pc' = "done")
        /\ pc = "fetching" =>
              /\ pc' = "done"
              /\ fetchLog' = fetchLog
              /\ request' = request
              /\ reply'.kind # "none"
              /\ response' # NoResponse
        /\ (pc' = "done" /\ fetchLog' # <<>>) => pc = "fetching"
      ]_vars

\* a request whose one upstream call failed was answered with the error
C24_Witness ==
    /\ pc = "done"
    /\ ReadsUri(S_uriAll)
    /\ Len(fetchLog) = 1
    /\ reply.kind = "networkError"
    /\ response.kind = "thrown"

(***************************************************************************)
(* Claims about the request of getProperty (Spec).                         *)
(***************************************************************************)
\* the id the handler of the request gave to getProperty
GivenUnitId ==
    IF request.method = "tools/call" THEN request.arguments["unit_id"]
    ELSE RequestedUnitId

\* C25: getProperty(unitId) issues exactly one request, to /units, whose
\* query carries unit_id equal to the given id together with expand=1 and
\* with_meta=1; no request issued by searchProperties carries expand.
C25_GetPropertyExpandsSearchDoesNot ==
    /\ branch \in GetBranches =>
          /\ Len(fetchLog) = 1
          /\ fetchLog[1].path = "/units"
          /\ {"unit_id", "expand", "with_meta"} \subseteq DOMAIN fetchLog[1].query
          /\ fetchLog[1].query["unit_id"] = GivenUnitId
          /\ fetchLog[1].query["expand"] = <<"1">>
          /\ fetchLog[1].query["with_meta"] = <<"1">>
    /\ branch \in SearchBranches =>
          /\ Len(fetchLog) = 1
          /\ "expand" \notin DOMAIN fetchLog[1].query

\* the get tool asked for unit 100 and the request has settled
C25_Witness ==
    /\ pc = "done"
    /\ branch = "tool_get"
    /\ reply.kind = "ok"
    /\ fetchLog[1].query = [unit_id |-> <<"1", "0", "0">>, expand |-> <<"1">>,
                            with_meta |-> <<"1">>]

(***************************************************************************)
(* Claims about unregistered names (Spec).                                 *)
(***************************************************************************)
\* C26: a request for an unregistered name fails with an error naming it
\* and touches nothing else: an unknown tool returns the isError payload
\* 'Error: Unknown tool: <name>', an unknown resource URI throws
\* 'Unknown resource: <uri>', an unknown prompt throws
\* 'Unknown prompt: <name>'; in each case no upstream request is made and
\* sanitizeProperty is not called.
C26_UnregisteredNameFails ==
    UnregisteredName =>
        /\ pc = "done"
        /\ fetchLog = <<>>
        /\ sanitizeLog = <<>>
        /\ reply.kind = "none"
        /\ CASE request.method = "tools/call" ->
                    /\ response.kind = "toolError"
                    /\ response.isError = TRUE
                    /\ response.text = S_errorPrefix \o S_unknownTool \o request.name
             [] request.method = "resources/read" ->
                    /\ response.kind = "thrown"
                    /\ response.message = S_unknownResource \o request.uri
             [] request.method = "prompts/get" ->
                    /\ response.kind = "thrown"
                    /\ response.message = S_unknownPrompt \o request.name

\* the tool 'token=z' was asked for and named in the error payload
C26_Witness ==
    /\ pc = "done"
    /\ CallsTool(<<"t", "o", "k", "e", "n", "=", "z">>)
    /\ response.kind = "toolError"
    /\ response.text = S_errorPrefix \o S_unknownTool \o <<"t", "o", "k", "e", "n", "=", "z">>
    /\ fetchLog = <<>>

(***************************************************************************)
(* Claims about the state that outlives a request (SpecStartup).           *)
(***************************************************************************)
\* the handler branch a request is served by, "none" when it names nothing
\* registered or fails before the client call
BranchFor(req) ==
    CASE req.method = "tools/call" ->
            IF req.name = S_searchTool THEN "tool_search"
            ELSE IF req.name = S_getTool /\ "unit_id" \in DOMAIN req.arguments THEN "tool_get"
            ELSE IF req.name = S_listTool THEN "tool_statuses"
            ELSE "none"
      [] req.method = "resources/read" ->
            IF ResourceBranch(req.uri) = "unknown" THEN "none" ELSE ResourceBranch(req.uri)
      [] req.method = "prompts/get" ->
            IF req.name = S_overviewPrompt THEN "prompt_overview" ELSE "none"
      [] OTHER -> "none"

\* the unit id of a request for one record
UnitIdFor(req) ==
    IF req.method = "tools/call" THEN req.arguments["unit_id"]
    ELSE IF ResourceBranch(req.uri) = "resource_single" THEN Captured(req.uri, S_uriSingle)
    ELSE Captured(req.uri, S_uriSingleAll)

\* what was thrown before any client call
ThrownEarly(req) ==
    IF req.method = "resources/read" THEN S_unknownResource \o req.uri
    ELSE IF req.method = "prompts/get" THEN S_unknownPrompt \o req.name
    ELSE IF req.name = S_getTool THEN S_cannotDestructure
    ELSE S_unknownTool \o req.name

\* the response to a tool, resource or prompt request, from the request and
\* the upstream reply to it alone
ResponseTo(req, rep) ==
    LET b == BranchFor(req)
        got == ClientResult(b, RequestOutcome(rep), IF b \in GetBranches THEN UnitIdFor(req) ELSE <<>>)
    IN  IF b = "none"
        THEN IF req.method = "tools/call"
             THEN ToolErrorResponse(Thrown(ThrownEarly(req), FALSE))
             ELSE ThrownResponse(Thrown(ThrownEarly(req), FALSE))
        ELSE IF got.ok THEN ResultResponse(BranchResult(b, got.value).payload)
        ELSE IF b \in ToolBranches THEN ToolErrorResponse(got)
        ELSE ThrownResponse(got)

\* C27: the only state that outlives a request is the API key, loaded from
\* the environment at start; no tool, resource or prompt request,
\* successful or failed, changes it (or the set of registered handlers);
\* the response to a request is determined by that request and the
\* upstream reply to it, whatever requests came before.
C27_OnlyApiKeyOutlivesRequests ==
    [][ /\ proc.state = "running" => (apiKey' = apiKey /\ proc' = proc)
        /\ proc'.state = "running" => apiKey' = env.val
        /\ pc' = "done" =>
              \/ request'.method \in {"tools/list", "resources/list", "prompts/list"}
              \/ response' = ResponseTo(request', reply')
      ]_vars

\* a process started with the second key answered a call of the get tool
\* from the request and the upstream reply
C27_Witness ==
    /\ proc.state = "running"
    /\ apiKey = "other-key-67890"
    /\ pc = "done"
    /\ CallsTool(S_getTool)
    /\ response.kind = "result"
    /\ response = ResponseTo(request, reply)

(***************************************************************************)
(* Claims about what leaves the server, over all paths (Spec).             *)
(***************************************************************************)
PersonalFields ==
    {"broker", "openimmo_email", "openimmo_firstname", "openimmo_lastname",
     "openimmo_phone"}

\* a top-level coordinate that is a number is a multiple of 0.001 degree
NoUnroundedCoordinate(rec) ==
    \A f \in {"lat", "lng"} \cap DOMAIN rec :
        rec[f].type = "number" => rec[f].val % 10 = 0

\* C28: whatever requests came before and whatever the upstream replied, no
\* successful response of a tool, resource or prompt that carries property
\* data has a top-level field broker, openimmo_email, openimmo_firstname,
\* openimmo_lastname or openimmo_phone, or a numeric top-level lat or lng
\* that is not rounded to 3 decimal places; this includes the search tool
\* and the resources properties/all and properties/active, whose records
\* have only fields of the fixed overview list.
C28_NoPersonalDataOrExactCoordinates ==
    (Succeeded /\ CarriesRecords) =>
        \A i \in 1..Len(ResponseRecords) :
            /\ PersonalFields \cap DOMAIN ResponseRecords[i] = {}
            /\ NoUnroundedCoordinate(ResponseRecords[i])
            /\ ReturnsOverview => DOMAIN ResponseRecords[i] \subseteq ToolOverviewFields

\* the record with contact fields and exact coordinates was read through
\* single_all/{id} and came back without the former and with the latter
\* rounded
C28_Witness ==
    /\ Succeeded
    /\ ReadsUnder(S_uriSingleAll)
    /\ ReplyUnits[1] = DetailUnit
    /\ response.payload["lat"] = JNum(0 - 335550)
    /\ response.payload["lng"] = JNum(100000)
    /\ "openimmo_phone" \notin DOMAIN response.payload

(***************************************************************************)
(* Claims about what sanitizeProperty leaves alone (SpecSanitize).         *)
(***************************************************************************)
\* the fields sanitizeProperty may change or remove
TouchedFields(removeMedia) ==
    {"lat", "lng", "broker", "openimmo_email", "openimmo_firstname", "openimmo_lastname",
     "openimmo_phone"}
    \cup (IF removeMedia THEN {"images", "documents", "videos", "360_views"} ELSE {})

\* C29: sanitizeProperty does not modify the record it is given, and in its
\* result every field other than lat, lng, the five broker/contact fields
\* and, when removeMedia is true, the four media fields is present with
\* exactly the value it had in the input.
C29_SanitizePropertyFrame ==
    [][ /\ spArg' = spArg
        /\ \A f \in DOMAIN spArg.property \ TouchedFields(spArg.removeMedia) :
              /\ f \in DOMAIN spRet'
              /\ spRet'[f] = spArg.property[f]
      ]_vars

\* a record with contact fields, media and an exact coordinate was
\* sanitized with media kept: it is as it was, and the result has its name
\* and media
C29_Witness ==
    /\ applied
    /\ ~spArg.removeMedia
    /\ "openimmo_email" \in DOMAIN spArg.property
    /\ "lat" \in DOMAIN spArg.property /\ spArg.property["lat"] = JNum(7)
    /\ spRet["lat"] = JNum(10)
    /\ "openimmo_email" \notin DOMAIN spRet
    /\ "images" \in DOMAIN spRet /\ spRet["images"] = spArg.property["images"]
    /\ spRet["name"] = spArg.property["name"]

(***************************************************************************)
(* Claims about the dispatch of resource URIs (Spec).                      *)
(***************************************************************************)
\* the text of the URI after a prefix
TextAfter(uri, prefix) == SubSeq(uri, Len(prefix) + 1, Len(uri))

HasLineTerminator(s) == \E i \in 1..Len(s) : s[i] \in {"\n", "\r"}

\* the conditions of the four branches that hold for a URI
BranchConditions(uri) ==
    {c \in {"all", "active", "single", "single_all"} :
        CASE c = "all" -> uri = S_uriAll
          [] c = "active" -> uri = S_uriActive
          [] c = "single" -> Matches(uri, S_uriSingle)
          [] c = "single_all" -> Matches(uri, S_uriSingleAll)}

\* the read ended as an unknown resource, without an upstream request
RejectedAsUnknown ==
    /\ pc = "done"
    /\ branch = "none"
    /\ fetchLog = <<>>
    /\ response.kind = "thrown"
    /\ response.message = S_unknownResource \o request.uri

\* each URI is handled by at most one branch; the id given to getProperty
\* is the text after the matched prefix; an empty id is rejected as an
\* unknown resource without an upstream request
DispatchUnambiguous ==
    /\ Cardinality(BranchConditions(request.uri)) <= 1
    /\ ReadsUnder(S_uriSingleAll) => branch # "resource_single"
    /\ branch = "resource_single_all" =>
          fetchLog[1].query["unit_id"] = TextAfter(request.uri, S_uriSingleAll)
    /\ branch = "resource_single" =>
          fetchLog[1].query["unit_id"] = TextAfter(request.uri, S_uriSingle)
    /\ request.uri \in {S_uriSingle, S_uriSingleAll} => RejectedAsUnknown

\* a read of single_all/{id} is served by the branch that keeps media
ServedWithMedia ==
    /\ branch = "resource_single_all"
    /\ Len(fetchLog) = 1
    /\ Succeeded =>
          /\ Len(sanitizeLog) = 1
          /\ ~sanitizeLog[1].removeMedia

\* C30 as stated: resource URI dispatch is unambiguous: each URI is handled
\* by at most one branch; a propstack://properties/single_all/<id> URI is
\* always served by the with-media branch and never by the without-media
\* branch of single/<id>; the unit_id passed to getProperty is exactly the
\* text after the matched prefix; a single/ or single_all/ URI with an
\* empty id is rejected as an unknown resource without an upstream request.
C30_SingleAllAlwaysWithMedia ==
    request.method = "resources/read" =>
        /\ DispatchUnambiguous
        /\ ReadsUnder(S_uriSingleAll) => ServedWithMedia

\* C30 as amended: as stated, for a single_all/<id> URI whose id has no
\* line terminator; a single/<id> or single_all/<id> URI whose id has a
\* line terminator is served by no branch and rejected as an unknown
\* resource without an upstream request.
C30_UriDispatch ==
    request.method = "resources/read" =>
        /\ DispatchUnambiguous
        /\ ReadsUnder(S_uriSingleAll) =>
              IF HasLineTerminator(TextAfter(request.uri, S_uriSingleAll))
              THEN RejectedAsUnknown
              ELSE ServedWithMedia
        /\ (ReadsUnder(S_uriSingle) /\ HasLineTerminator(TextAfter(request.uri, S_uriSingle)))
              => RejectedAsUnknown

\* single_all/100 was read: served with media, the id being the text after
\* the prefix
C30_Witness ==
    /\ Succeeded
    /\ ReadsUri(S_uriSingleAll \o <<"1", "0", "0">>)
    /\ branch = "resource_single_all"
    /\ fetchLog[1].query["unit_id"] = <<"1", "0", "0">>
    /\ sanitizeLog[1].removeMedia = FALSE
    /\ "images" \in DOMAIN response.payload

====
